---- MODULE Spec2Model ----
(***************************************************************************)
(* PPTXService (src/server/services/pptxService.ts): template analysis,    *)
(* presentation generation and cleanup of extracted images, as a state     *)
(* machine over the service's two directories.                             *)
(*                                                                         *)
(* Strings the code converts (toUpperCase, replace, split, regular         *)
(* expressions) are sequences of one-character strings; strings the code   *)
(* only copies or compares are TLA+ strings.  A JavaScript value that may  *)
(* be undefined is a sequence that is empty when the value is undefined.   *)
(***************************************************************************)
EXTENDS Integers, Sequences, FiniteSets, TLC

VARIABLES
    template,     \* the bytes stored at TemplatePath (environment; fixed per behaviour)
    imagesDir,    \* files in <uploadsDir>/extracted_images
    uploadsDir,   \* generated documents in <uploadsDir>
    uuid,         \* number of randomUUID() values drawn so far
    analysis,     \* the most recent analyzeTemplate call: its argument and result
    firstAnalysis, \* the first analyzeTemplate call on the template that met no
                   \* I/O error (clean) and the first that met one (faulted)
    generation,   \* the most recent generatePresentation call: arguments and outcome
    slideCall,    \* the arguments of a createSlide call
    slideOut,     \* what that call made of them
    calls,        \* the calls in flight, one per caller: where each of the call's
                  \* promises stands and what it has settled with
    history       \* the paths written so far, and those written more than once

vars == <<template, imagesDir, uploadsDir, uuid, analysis, firstAnalysis, generation,
         slideCall, slideOut, calls, history>>

(***************************************************************************)
(* Bounds                                                                  *)
(***************************************************************************)
\* randomUUID() draws before the model stops drawing fresh ids
MaxUuid == 3

(***************************************************************************)
(* Characters and strings                                                  *)
(***************************************************************************)
Digits == {"0", "1", "2", "3", "4", "5", "6", "7", "8", "9"}
UpperHex == {"A", "B", "C", "D", "E", "F"}
LowerHex == {"a", "b", "c", "d", "e", "f"}

\* String.prototype.toUpperCase, one character
UpperChar(c) ==
    CASE c = "a" -> "A" [] c = "b" -> "B" [] c = "c" -> "C" [] c = "d" -> "D"
      [] c = "e" -> "E" [] c = "f" -> "F" [] c = "r" -> "R" [] c = "g" -> "G"
      [] c = "n" -> "N" [] c = "z" -> "Z" [] OTHER -> c

\* String.prototype.toUpperCase
toUpperCase(s) == [i \in DOMAIN s |-> UpperChar(s[i])]

\* /^[0-9A-Fa-f]{6}$/.test(s)
IsHex6(s) ==
    /\ Len(s) = 6
    /\ \A i \in DOMAIN s : s[i] \in Digits \cup UpperHex \cup LowerHex

\* s.replace('#', ''): the first '#' of s is removed
StripHash(s) ==
    LET at == {i \in DOMAIN s : s[i] = "#"}
    IN IF at = {} THEN s
       ELSE LET k == CHOOSE i \in at : \A j \in at : i <= j
            IN SubSeq(s, 1, k - 1) \o SubSeq(s, k + 1, Len(s))

\* `#${s}`
Hash(s) == <<"#">> \o s

(***************************************************************************)
(* Colour and font literals of the source                                  *)
(***************************************************************************)
cFFFFFF == <<"#", "F", "F", "F", "F", "F", "F">>
c000000 == <<"#", "0", "0", "0", "0", "0", "0">>
cE7E6E6 == <<"#", "E", "7", "E", "6", "E", "6">>
c44546A == <<"#", "4", "4", "5", "4", "6", "A">>
c5B9BD5 == <<"#", "5", "B", "9", "B", "D", "5">>
c70AD47 == <<"#", "7", "0", "A", "D", "4", "7">>
cA5A5A5 == <<"#", "A", "5", "A", "5", "A", "5">>
cFFC000 == <<"#", "F", "F", "C", "0", "0", "0">>
c4472C4 == <<"#", "4", "4", "7", "2", "C", "4">>
cC5504B == <<"#", "C", "5", "5", "0", "4", "B">>
c0066CC == <<"#", "0", "0", "6", "6", "C", "C">>
c954F72 == <<"#", "9", "5", "4", "F", "7", "2">>
c2563EB == <<"#", "2", "5", "6", "3", "E", "B">>
c64748B == <<"#", "6", "4", "7", "4", "8", "B">>
c10B981 == <<"#", "1", "0", "B", "9", "8", "1">>
cF59E0B == <<"#", "F", "5", "9", "E", "0", "B">>
c8B5CF6 == <<"#", "8", "B", "5", "C", "F", "6">>
cEF4444 == <<"#", "E", "F", "4", "4", "4", "4">>

\* the keys of ThemeData.colorScheme, in the order the object literals list them
SlotOrder ==
    <<"background1", "text1", "background2", "text2", "accent1", "accent2",
      "accent3", "accent4", "accent5", "accent6", "hyperlink", "followedHyperlink">>

SlotNames == {SlotOrder[i] : i \in DOMAIN SlotOrder}

\* the theme element each slot is read from (parseColorScheme)
SlotTag ==
    [background1 |-> "lt1", text1 |-> "dk1", background2 |-> "lt2", text2 |-> "dk2",
     accent1 |-> "accent1", accent2 |-> "accent2", accent3 |-> "accent3",
     accent4 |-> "accent4", accent5 |-> "accent5", accent6 |-> "accent6",
     hyperlink |-> "hlink", followedHyperlink |-> "folHlink"]

\* the per-slot default of parseColorScheme, equal to getDefaultThemeData().colorScheme
SlotDefault ==
    [background1 |-> cFFFFFF, text1 |-> c000000, background2 |-> cE7E6E6,
     text2 |-> c44546A, accent1 |-> c5B9BD5, accent2 |-> c70AD47,
     accent3 |-> cA5A5A5, accent4 |-> cFFC000, accent5 |-> c4472C4,
     accent6 |-> cC5504B, hyperlink |-> c0066CC, followedHyperlink |-> c954F72]

DefaultFontScheme == [majorFont |-> "Calibri", minorFont |-> "Calibri"]

\* a plausible slip: the aggregator's baseline palette returned as the default theme
getDefaultThemeData_baselinePalette ==
    [colorScheme |-> [SlotDefault EXCEPT !.accent1 = c2563EB, !.accent2 = c64748B,
                                         !.accent3 = c10B981, !.accent4 = cF59E0B,
                                         !.accent5 = c8B5CF6, !.accent6 = cEF4444],
     fontScheme |-> DefaultFontScheme]

\* getDefaultThemeData (effectScheme is an empty object nothing reads)
getDefaultThemeData ==
    [colorScheme |-> SlotDefault, fontScheme |-> DefaultFontScheme]

(***************************************************************************)
(* The tree xml2js builds: an element is its attribute object `$` and its  *)
(* child arrays in key order.  An element with neither is the empty string *)
(* xml2js yields for an empty tag, which is falsy.                         *)
(***************************************************************************)
El(attrs, kids) == [attrs |-> attrs, kids |-> kids]
Kid(key, items) == [key |-> key, items |-> items]
NoAttrs == <<>>
EmptyTag == El(NoAttrs, <<>>)

IsEmptyTag(e) == DOMAIN e.attrs = {} /\ e.kids = <<>>

\* element[key]: the child array under key, <<>> when undefined
Get(e, key) ==
    LET at == {i \in DOMAIN e.kids : e.kids[i].key = key}
    IN IF at = {} THEN <<>> ELSE e.kids[CHOOSE i \in at : TRUE].items

\* element['a:' + name] || element[name]
GetNs(e, name) ==
    LET a == Get(e, "a:" \o name)
    IN IF a # <<>> THEN a ELSE Get(e, name)

\* attrs[name], <<>> when undefined (and the empty string is as falsy)
Attr(e, name) == IF name \in DOMAIN e.attrs THEN e.attrs[name] ELSE <<>>

\* key.includes('Clr'), over the element names of the model
HasClr(key) ==
    key \in {"a:srgbClr", "srgbClr", "a:sysClr", "sysClr", "a:prstClr",
             "a:schemeClr", "a:hslClr", "a:custClr"}

(***************************************************************************)
(* extractColorValue: <<>> is null                                         *)
(***************************************************************************)
Ret(s) == [k |-> "ret", v |-> s]
Throw == [k |-> "throw", v |-> <<>>]
Fall == [k |-> "next", v |-> <<>>]

\* lines 359-374: the child kind (srgbClr, sysClr) and the attribute it carries.
\* `x[0]?.$ || x[0]`: without attributes the element itself is probed, and a
\* child array under the attribute's name has no toUpperCase.
ClrChild(element, tag, attr) ==
    LET x == GetNs(element, tag)
    IN IF x = <<>> THEN Fall
       ELSE IF DOMAIN x[1].attrs # {}
            THEN IF Attr(x[1], attr) # <<>>
                 THEN Ret(Hash(toUpperCase(Attr(x[1], attr))))
                 ELSE Fall
            ELSE IF Get(x[1], attr) # <<>> THEN Throw ELSE Fall

\* lines 377-379
DirectVal(element) ==
    IF Attr(element, "val") # <<>>
    THEN Ret(Hash(toUpperCase(Attr(element, "val"))))
    ELSE Fall

\* lines 382-389: the first key, in key order, that holds 'Clr' and whose first
\* element has a 6-hex-digit val
NestedVal(element) ==
    LET hit == {i \in DOMAIN element.kids :
                  /\ HasClr(element.kids[i].key)
                  /\ DOMAIN element.kids[i].items[1].attrs # {}
                  /\ IsHex6(Attr(element.kids[i].items[1], "val"))}
    IN IF hit = {} THEN Fall
       ELSE LET k == CHOOSE i \in hit : \A j \in hit : i <= j
            IN Ret(Hash(toUpperCase(Attr(element.kids[k].items[1], "val"))))

FirstOf(a, b) == IF a.k = "next" THEN b ELSE a

\* a plausible slip: the system colour is tried before the RGB value
extractColorValue_sysFirst(colorElement) ==
    IF colorElement = <<>> \/ IsEmptyTag(colorElement[1]) THEN <<>>
    ELSE LET element == colorElement[1]
             r == FirstOf(ClrChild(element, "sysClr", "lastClr"),
                  FirstOf(ClrChild(element, "srgbClr", "val"),
                  FirstOf(DirectVal(element), NestedVal(element))))
         IN IF r.k = "ret" THEN r.v ELSE <<>>

extractColorValue(colorElement) ==
    IF colorElement = <<>> \/ IsEmptyTag(colorElement[1]) THEN <<>>
    ELSE LET element == colorElement[1]
             r == FirstOf(ClrChild(element, "srgbClr", "val"),
                  FirstOf(ClrChild(element, "sysClr", "lastClr"),
                  FirstOf(DirectVal(element), NestedVal(element))))
         IN IF r.k = "ret" THEN r.v ELSE <<>>

\* the array xml2js builds for the child elements named typeface of an element,
\* which is no string; the model keeps this marker for it
TypefaceChildren == "[typeface child elements]"

\* extractFontName, lines 399-419: "" is null.  `latin[0]?.$ || latin[0]`: without
\* attributes the element itself is probed, and its child array named typeface is
\* returned as it is
extractFontName(fontElement) ==
    IF fontElement = <<>> \/ IsEmptyTag(fontElement[1]) THEN ""
    ELSE LET latin == GetNs(fontElement[1], "latin")
         IN IF latin = <<>> THEN ""
            ELSE IF DOMAIN latin[1].attrs # {}
                 THEN IF "typeface" \in DOMAIN latin[1].attrs
                      THEN latin[1].attrs.typeface ELSE ""
                 ELSE IF Get(latin[1], "typeface") # <<>> THEN TypefaceChildren ELSE ""

(***************************************************************************)
(* The parsed theme document: the root key and the root element            *)
(***************************************************************************)
\* themeData['a:theme'] || themeData.theme; <<>> when undefined
ThemeRoot(doc) ==
    IF doc.rootKey \in {"a:theme", "theme"} /\ ~IsEmptyTag(doc.root)
    THEN <<doc.root>> ELSE <<>>

\* themeElements?.[0]?.['a:' + name] || themeElements?.[0]?.[name]
SchemeOf(theme, name) ==
    LET themeElements == GetNs(theme, "themeElements")
    IN IF themeElements = <<>> THEN <<>> ELSE GetNs(themeElements[1], name)

parseColorScheme(doc) ==
    IF ThemeRoot(doc) = <<>> THEN getDefaultThemeData.colorScheme   \* TypeError, caught
    ELSE LET colorScheme == SchemeOf(ThemeRoot(doc)[1], "clrScheme")
         IN IF colorScheme = <<>> \/ IsEmptyTag(colorScheme[1])
            THEN getDefaultThemeData.colorScheme
            ELSE [s \in SlotNames |->
                    LET v == extractColorValue(GetNs(colorScheme[1], SlotTag[s]))
                    IN IF v # <<>> THEN v ELSE SlotDefault[s]]

parseFontScheme(doc) ==
    IF ThemeRoot(doc) = <<>> THEN DefaultFontScheme                 \* TypeError, caught
    ELSE LET fontScheme == SchemeOf(ThemeRoot(doc)[1], "fontScheme")
         IN IF fontScheme = <<>> \/ IsEmptyTag(fontScheme[1])
            THEN DefaultFontScheme
            ELSE LET major == extractFontName(GetNs(fontScheme[1], "majorFont"))
                     minor == extractFontName(GetNs(fontScheme[1], "minorFont"))
                 IN [majorFont |-> IF major # "" THEN major ELSE "Calibri",
                     minorFont |-> IF minor # "" THEN minor ELSE "Calibri"]

\* extractThemeData: themePart is what zip.file('ppt/theme/theme1.xml') and the
\* parser make of the container
extractThemeData(themePart) ==
    IF themePart.state = "absent" THEN getDefaultThemeData
    ELSE IF themePart.state \in {"unreadable", "malformed"} THEN getDefaultThemeData
    ELSE [colorScheme |-> parseColorScheme(themePart.doc),
          fontScheme |-> parseFontScheme(themePart.doc)]

(***************************************************************************)
(* The container JSZip opens: the theme part, the slide-master part and    *)
(* the other entries in archive order.  An entry's name is                 *)
(* <dir joined by "/">/<word><num>.<ext>, num being the digits that end    *)
(* the stem; ok tells whether its compressed data can be read.             *)
(***************************************************************************)
Entry(dir, word, num, ext, size, ok) ==
    [dir |-> dir, word |-> word, num |-> num, ext |-> ext, size |-> size, ok |-> ok]

\* String.prototype.toLowerCase, over the extensions of the model
LowerExt(ext) ==
    CASE ext = "PNG" -> "png" [] ext = "JPG" -> "jpg" [] ext = "Gif" -> "gif"
      [] ext = "XML" -> "xml" [] OTHER -> ext

\* fileName.startsWith('ppt/media/') && /\.(png|jpg|jpeg|gif|emf|wmf)$/i.test(fileName)
IsMediaFile(e) ==
    /\ Len(e.dir) >= 2 /\ e.dir[1] = "ppt" /\ e.dir[2] = "media"
    /\ LowerExt(e.ext) \in {"png", "jpg", "jpeg", "gif", "emf", "wmf"}

\* a plausible slip: every part under ppt/slides/ is taken for a slide
IsSlideFile_anyUnderSlides(e) ==
    Len(e.dir) >= 2 /\ e.dir[1] = "ppt" /\ e.dir[2] = "slides"

\* f.match(/^ppt\/slides\/slide\d+\.xml$/)
IsSlideFile(e) ==
    e.dir = <<"ppt", "slides">> /\ e.word = "slide" /\ e.num # "" /\ e.ext = "xml"

\* f.match(/^ppt\/slideLayouts\/slideLayout\d+\.xml$/)
IsLayoutFile(e) ==
    e.dir = <<"ppt", "slideLayouts">> /\ e.word = "slideLayout" /\ e.num # ""
    /\ e.ext = "xml"

\* path.basename(mediaPath)
BaseName(e) == <<e.word, e.num, e.ext>>

DefaultLayoutNames ==
    <<"Title Slide", "Content", "Two Column", "Image & Content", "Section Header">>

\* the file extractImages writes at <imagesDir>/<id>_<fileName>
ImageFile(id, e) == [id |-> id, name |-> BaseName(e), size |-> e.size]

\* a plausible slip: the buffer is written short of its last byte
ExtractedFile_truncated(id, e) == [id |-> id, name |-> BaseName(e), size |-> e.size - 1]

\* a plausible slip: the file is stored under the part's own name, so that a
\* later call on the same template overwrites it
ExtractedFile_underPartName(id, e) == ImageFile(0, e)

ExtractedFile(id, e) == ImageFile(id, e)

\* lines 191-194
mediaFiles(zip) == SelectSeq(zip.files, IsMediaFile)

\* a plausible slip: originalName takes the name of the file written, id and all
ImageRecord_writtenName(media, templatePath, first, i) ==
    [id |-> first + i,
     originalName |-> <<first + i>> \o BaseName(media[i]),
     filePath |-> <<first + i, BaseName(media[i])>>,
     fileType |-> LowerExt(media[i].ext),
     slideContext |-> "template",
     description |-> templatePath]

\* the record extractImages pushes for the i-th media file, lines 210-217; the
\* description, `Extracted from ${path.basename(templatePath)}`, is kept as the path
ImageRecord(media, templatePath, first, i) ==
    [id |-> first + i,
     originalName |-> BaseName(media[i]),
     filePath |-> <<first + i, BaseName(media[i])>>,
     fileType |-> LowerExt(media[i].ext),
     slideContext |-> "template",
     description |-> templatePath]

\* the position of the first media file whose read or write raises, one past the
\* last when none does
FirstFailure(media, writeFail) ==
    LET bad == {i \in DOMAIN media : ~media[i].ok \/ i = writeFail}
    IN IF bad = {} THEN Len(media) + 1
       ELSE CHOOSE i \in bad : \A j \in bad : i <= j

\* the loop of extractImages over the media files, lines 196-223, stopped at stop
ExtractUpTo(media, templatePath, first, stop) ==
    [images |-> IF stop <= Len(media) THEN <<>>
                ELSE [i \in 1..Len(media) |-> ImageRecord(media, templatePath, first, i)],
     written |-> {ExtractedFile(first + i, media[i]) : i \in 1..(stop - 1)},
     drawn |-> IF stop <= Len(media) /\ media[stop].ok THEN stop ELSE stop - 1,
     threw |-> stop <= Len(media)]

ExtractLoop(media, templatePath, first, writeFail) ==
    ExtractUpTo(media, templatePath, first, FirstFailure(media, writeFail))

\* extractImages, lines 186-230.  first is the number of ids drawn before the call;
\* writeFail is the position in mediaFiles of the write the disk refuses (0: none).
\* The loop stops at the first entry whose read or write raises; the catch then
\* returns the empty list, and what was written stays on disk.
extractImages(zip, templatePath, first, writeFail) ==
    ExtractLoop(mediaFiles(zip), templatePath, first, writeFail)

\* analyzeSlideStructure, lines 233-287: the inner catch pushes the same names the
\* try does, so a master part that cannot be read gives what a readable one gives
analyzeSlideStructure(zip) ==
    [slideCount |-> Len(SelectSeq(zip.files, IsSlideFile)),
     layoutCount |-> Len(SelectSeq(zip.files, IsLayoutFile)),
     masterLayouts |-> IF zip.master = "absent" THEN <<>> ELSE DefaultLayoutNames]

\* Object.values(colorScheme).filter(c => c && c !== 'unknown')
ColorList(colorScheme) ==
    SelectSeq([i \in DOMAIN SlotOrder |-> colorScheme[SlotOrder[i]]],
              LAMBDA c : c # <<>> /\ c # <<"u", "n", "k", "n", "o", "w", "n">>)

\* [majorFont, minorFont].filter(f => f && f !== 'unknown')
FontList(fontScheme) ==
    SelectSeq(<<fontScheme.majorFont, fontScheme.minorFont>>,
              LAMBDA f : f # "" /\ f # "unknown")

\* a plausible slip: the catch returns the default theme's palette and one font twice
BaselineAnalysis_conflated ==
    [slideCount |-> 1, imageCount |-> 0, layoutCount |-> 5,
     colors |-> <<c5B9BD5, c70AD47, cA5A5A5, cFFC000>>,
     fonts |-> <<"Calibri", "Calibri">>,
     masterLayouts |-> DefaultLayoutNames,
     extractedImages |-> <<>>,
     themeData |-> getDefaultThemeData]

\* the catch of analyzeTemplate, lines 120-142
BaselineAnalysis ==
    [slideCount |-> 12, imageCount |-> 0, layoutCount |-> 5,
     colors |-> <<c2563EB, c64748B, c10B981, cF59E0B>>,
     fonts |-> <<"Calibri", "Arial">>,
     masterLayouts |-> DefaultLayoutNames,
     extractedImages |-> <<>>,
     themeData |->
        [colorScheme |->
            [background1 |-> cFFFFFF, text1 |-> c000000, background2 |-> cE7E6E6,
             text2 |-> c44546A, accent1 |-> c2563EB, accent2 |-> c64748B,
             accent3 |-> c10B981, accent4 |-> cF59E0B, accent5 |-> c8B5CF6,
             accent6 |-> cEF4444, hyperlink |-> c0066CC, followedHyperlink |-> c954F72],
         fontScheme |-> [majorFont |-> "Calibri", minorFont |-> "Calibri"]]]

(***************************************************************************)
(* The file system                                                         *)
(***************************************************************************)
TemplatePath == "uploads/template.pptx"
MissingPath == "uploads/gone.pptx"

\* fs.existsSync(filePath)
existsSync(path, tpl) == path = TemplatePath /\ tpl.kind # "none"

\* JSZip.loadAsync(fs.readFileSync(filePath)) resolves
OpensAsZip(path, tpl) == existsSync(path, tpl) /\ tpl.kind = "zip"

\* a plausible slip: imageCount counts the files written, not the records returned
Aggregate_countsWritten(themeData, extracted, slideStructure) ==
    [threw |-> FALSE,
     result |->
        [slideCount |-> slideStructure.slideCount,
         imageCount |-> Cardinality(extracted.written),
         layoutCount |-> slideStructure.layoutCount,
         colors |-> ColorList(themeData.colorScheme),
         fonts |-> FontList(themeData.fontScheme),
         masterLayouts |-> slideStructure.masterLayouts,
         extractedImages |-> extracted.images,
         themeData |-> themeData],
     written |-> extracted.written,
     drawn |-> extracted.drawn,
     ioError |-> extracted.threw]

\* lines 104-117: the aggregate analyzeTemplate returns from its three extractions
Aggregate(themeData, extracted, slideStructure) ==
    [threw |-> FALSE,
     result |->
        [slideCount |-> slideStructure.slideCount,
         imageCount |-> Len(extracted.images),
         layoutCount |-> slideStructure.layoutCount,
         colors |-> ColorList(themeData.colorScheme),
         fonts |-> FontList(themeData.fontScheme),
         masterLayouts |-> slideStructure.masterLayouts,
         extractedImages |-> extracted.images,
         themeData |-> themeData],
     written |-> extracted.written,
     drawn |-> extracted.drawn,
     ioError |-> extracted.threw]

\* the try block of analyzeTemplate, lines 83-118: threw when existsSync is false
\* (line 87) or loadAsync rejects (line 92); the three extractions never reject
AnalyzeTry(filePath, tpl, first, writeFail) ==
    IF ~OpensAsZip(filePath, tpl)
    THEN [threw |-> TRUE, result |-> <<>>, written |-> {}, drawn |-> 0,
          ioError |-> FALSE]
    ELSE Aggregate(extractThemeData(tpl.zip.theme),
                   extractImages(tpl.zip, filePath, first, writeFail),
                   analyzeSlideStructure(tpl.zip))

\* a plausible slip: the catch logs the error and throws it on
AnalyzeCatch_rethrow(try) ==
    [raised |-> try.threw, result |-> try.result, written |-> try.written,
     drawn |-> try.drawn, ioError |-> try.ioError]

\* the catch of analyzeTemplate, lines 119-142: whatever the try block threw, the
\* baseline record is returned
AnalyzeCatch(try) ==
    [raised |-> FALSE,
     result |-> IF try.threw THEN BaselineAnalysis ELSE try.result,
     written |-> try.written,
     drawn |-> try.drawn,
     ioError |-> try.ioError]

\* analyzeTemplate, lines 82-143: the record returned (raised: the promise
\* rejects), the files written and the number of ids drawn
analyzeTemplate(filePath, tpl, first, writeFail) ==
    AnalyzeCatch(AnalyzeTry(filePath, tpl, first, writeFail))

(***************************************************************************)
(* Slide building.  Lengths are tenths of an inch; a string that may be    *)
(* empty as well as undefined is undefined when it is the marker below.    *)
(***************************************************************************)
undefined == <<"undefined">>
NL == "\n"

\* the first i with s[i..i+1] = "\n\n", 0 when there is none
BlankLineAt(s) ==
    LET at == {i \in 1..(Len(s) - 1) : s[i] = NL /\ s[i + 1] = NL}
    IN IF at = {} THEN 0 ELSE CHOOSE i \in at : \A j \in at : i <= j

\* s.split('\n\n')
RECURSIVE split(_)
split(s) ==
    IF BlankLineAt(s) = 0 THEN <<s>>
    ELSE <<SubSeq(s, 1, BlankLineAt(s) - 1)>>
         \o split(SubSeq(s, BlankLineAt(s) + 2, Len(s)))

\* parts.join('\n\n')
RECURSIVE join(_)
join(parts) ==
    IF parts = <<>> THEN <<>>
    ELSE IF Len(parts) = 1 THEN parts[1]
    ELSE parts[1] \o <<NL, NL>> \o join(Tail(parts))

\* Math.ceil(n / 2)
CeilHalf(n) == (n + 1) \div 2

\* a plausible slip: Math.floor in place of Math.ceil
SplitAt_floor(n) == n \div 2

\* the index both slices of createTwoColumnSlide use, lines 685-686
SplitAt(n) == CeilHalf(n)

Text(text, x, y, w, h, fontSize, fontFace, color, bold, align, valign) ==
    [type |-> "text", text |-> text, path |-> <<>>, x |-> x, y |-> y, w |-> w, h |-> h,
     fontSize |-> fontSize, fontFace |-> fontFace, color |-> color, bold |-> bold,
     align |-> align, valign |-> valign, fill |-> <<>>, border |-> <<>>]

\* slide.addImage({path, x: 5.5, y: 2, w: 4, h: 2.5})
Image(path) ==
    [type |-> "image", text |-> <<>>, path |-> path, x |-> 55, y |-> 20, w |-> 40, h |-> 25,
     fontSize |-> 0, fontFace |-> "", color |-> <<>>, bold |-> FALSE,
     align |-> "", valign |-> "", fill |-> <<>>, border |-> <<>>]

\* getStyleContext, lines 582-603; templateAnalysis is <<>> when null
DefaultStyleContext ==
    [titleColor |-> Tail(c2563EB),
     textColor |-> <<"1", "F", "2", "9", "3", "7">>,
     accentColor |-> Tail(c64748B),
     titleFont |-> "Calibri", bodyFont |-> "Calibri"]

\* a plausible slip: the accent colour is taken from accent1 and the body font from
\* majorFont
getStyleContext_oneSlotForAll(templateAnalysis) ==
    IF templateAnalysis = <<>> THEN DefaultStyleContext
    ELSE LET colors == templateAnalysis[1].themeData.colorScheme
             fonts == templateAnalysis[1].themeData.fontScheme
         IN [titleColor |-> StripHash(colors.accent1),
             textColor |-> StripHash(colors.text1),
             accentColor |-> StripHash(colors.accent1),
             titleFont |-> fonts.majorFont,
             bodyFont |-> fonts.majorFont]

getStyleContext(templateAnalysis) ==
    IF templateAnalysis = <<>> THEN DefaultStyleContext
    ELSE LET colors == templateAnalysis[1].themeData.colorScheme
             fonts == templateAnalysis[1].themeData.fontScheme
         IN [titleColor |-> StripHash(colors.accent1),
             textColor |-> StripHash(colors.text1),
             accentColor |-> StripHash(colors.accent2),
             titleFont |-> fonts.majorFont,
             bodyFont |-> fonts.minorFont]

\* createTitleSlide, lines 606-637
createTitleSlide(slideData, sc) ==
    <<Text(slideData.title, 5, 15, 90, 18, 40, sc.titleFont, sc.titleColor, TRUE,
           "center", "middle")>>
    \o IF slideData.content # undefined /\ slideData.content # <<>>
       THEN <<Text(slideData.content, 5, 35, 90, 12, 20, sc.bodyFont, sc.accentColor,
                   FALSE, "center", "middle")>>
       ELSE <<>>

\* createContentSlide, lines 640-666
createContentSlide(slideData, sc) ==
    <<Text(slideData.title, 5, 3, 90, 10, 32, sc.titleFont, sc.titleColor, TRUE,
           "left", ""),
      Text(slideData.content, 5, 15, 90, 35, 18, sc.bodyFont, sc.textColor, FALSE,
           "left", "top")>>

\* createTwoColumnSlide, lines 669-713; the caller has checked content is a string
createTwoColumnSlide(slideData, sc) ==
    LET contentParts == split(slideData.content)
        k == SplitAt(Len(contentParts))
        leftContent == join(SubSeq(contentParts, 1, k))
        rightContent == join(SubSeq(contentParts, k + 1, Len(contentParts)))
    IN <<Text(slideData.title, 5, 3, 90, 10, 32, sc.titleFont, sc.accentColor, TRUE,
              "left", ""),
         Text(leftContent, 5, 15, 42, 35, 18, sc.bodyFont, sc.textColor, FALSE,
              "left", "top"),
         Text(rightContent, 52, 15, 42, 35, 18, sc.bodyFont, sc.textColor, FALSE,
              "left", "top")>>

PlaceholderText == <<"Template Image", NL, "Placeholder">>

\* addImagePlaceholder, lines 777-791
ImagePlaceholder(sc) ==
    [Text(PlaceholderText, 55, 20, 40, 25, 14, sc.bodyFont, sc.accentColor, FALSE,
          "center", "middle")
     EXCEPT !.fill = <<"F", "3", "F", "4", "F", "6">>, !.border = sc.accentColor]

\* a plausible slip: the image extracted last is the one reused
selectImageForReuse_last(templateAnalysis) ==
    IF templateAnalysis = <<>> \/ Len(templateAnalysis[1].extractedImages) = 0
    THEN <<>>
    ELSE <<templateAnalysis[1].extractedImages[Len(templateAnalysis[1].extractedImages)]>>

\* selectImageForReuse, lines 763-774; <<>> is null
selectImageForReuse(templateAnalysis) ==
    IF templateAnalysis = <<>> \/ Len(templateAnalysis[1].extractedImages) = 0
    THEN <<>>
    ELSE <<templateAnalysis[1].extractedImages[1]>>

\* a plausible slip: without an image to reuse nothing is added
ImageOrPlaceholder_imageOnly(reusedImage, sc, disk, addImageOk) ==
    IF /\ reusedImage # <<>>
       /\ \E f \in disk : <<f.id, f.name>> = reusedImage[1].filePath
    THEN IF addImageOk THEN <<Image(reusedImage[1].filePath)>>
         ELSE <<ImagePlaceholder(sc)>>
    ELSE <<>>

\* lines 741-759: the image when one is selected, its file exists and addImage
\* returns; the placeholder otherwise (the catch of line 753 adds it as well)
ImageOrPlaceholder(reusedImage, sc, disk, addImageOk) ==
    IF /\ reusedImage # <<>>
       /\ \E f \in disk : <<f.id, f.name>> = reusedImage[1].filePath
    THEN IF addImageOk THEN <<Image(reusedImage[1].filePath)>>
         ELSE <<ImagePlaceholder(sc)>>
    ELSE <<ImagePlaceholder(sc)>>

\* createImageContentSlide, lines 716-760.  disk is the images directory as
\* existsSync sees it; addImageOk tells whether slide.addImage returns.
createImageContentSlide(slideData, sc, templateAnalysis, disk, addImageOk) ==
    <<Text(slideData.title, 5, 5, 90, 8, 28, sc.titleFont, sc.titleColor, TRUE,
           "", ""),
      Text(slideData.content, 5, 15, 45, 35, 16, sc.bodyFont, sc.textColor, FALSE,
           "", "top")>>
    \o ImageOrPlaceholder(selectImageForReuse(templateAnalysis), sc, disk, addImageOk)

\* createConclusionSlide, lines 794-820
createConclusionSlide(slideData, sc) ==
    <<Text(slideData.title, 10, 15, 80, 10, 32, sc.titleFont, sc.titleColor, TRUE,
           "center", ""),
      Text(slideData.content, 10, 28, 80, 20, 18, sc.bodyFont, sc.textColor, FALSE,
           "center", "middle")>>

\* a plausible slip: an absent options bag read as generateNotes "none"
GenerateNotes_absentIsNone(options) ==
    IF options = <<>> THEN "none" ELSE options[1].generateNotes

\* options?.generateNotes; options is <<>> when undefined
GenerateNotes(options) == IF options = <<>> THEN "" ELSE options[1].generateNotes

\* a plausible slip: the default of the switch falls to the title builder
Builder_defaultTitle(layout) ==
    IF layout \in {"title_slide", "content", "two_column", "image_content", "conclusion"}
    THEN layout ELSE "title_slide"

\* the switch of createSlide, lines 553-571: the builder a layout selects
Builder(layout) ==
    IF layout \in {"title_slide", "two_column", "image_content", "conclusion"}
    THEN layout ELSE "content"

\* createSlide, lines 543-579: threw when a builder raises (split of a content
\* that is not a string), else the slide added
\* a plausible slip: with reuseImages off the image_content builder is handed no
\* analysis
ImageSource_honoursFlag(options, templateAnalysis) ==
    IF options # <<>> /\ ~options[1].reuseImages THEN <<>> ELSE templateAnalysis

\* line 564: the image_content builder is handed templateAnalysis, whatever the
\* options
ImageSource(options, templateAnalysis) == templateAnalysis

createSlide(slideData, options, templateAnalysis, disk, addImageOk) ==
    LET bg == IF templateAnalysis = <<>> THEN <<>>
              ELSE StripHash(templateAnalysis[1].themeData.colorScheme.background1)
        sc == getStyleContext(templateAnalysis)
        b == Builder(slideData.layout)
        threw == b = "two_column" /\ slideData.content = undefined
        elements ==
            CASE b = "title_slide" -> createTitleSlide(slideData, sc)
              [] b = "two_column" ->
                    IF threw THEN <<>> ELSE createTwoColumnSlide(slideData, sc)
              [] b = "image_content" ->
                    createImageContentSlide(slideData, sc,
                                            ImageSource(options, templateAnalysis),
                                            disk, addImageOk)
              [] b = "conclusion" -> createConclusionSlide(slideData, sc)
              [] OTHER -> createContentSlide(slideData, sc)
    IN [threw |-> threw,
        slide |->
          [background |-> IF bg # <<>> THEN bg ELSE Tail(cFFFFFF),
           styleContext |-> sc,
           elements |-> elements,
           notes |-> IF slideData.speakerNotes # "" /\ GenerateNotes(options) # "none"
                     THEN slideData.speakerNotes ELSE ""]]

(***************************************************************************)
(* generatePresentation                                                    *)
(***************************************************************************)
Letters ==
    {"a", "b", "c", "d", "e", "f", "g", "h", "i", "j", "k", "l", "m", "n", "o", "p",
     "q", "r", "s", "t", "u", "v", "w", "x", "y", "z", "A", "B", "C", "D", "E", "F",
     "G", "H", "I", "J", "K", "L", "M", "N", "O", "P", "Q", "R", "S", "T", "U", "V",
     "W", "X", "Y", "Z"}

\* title.replace(/[^a-zA-Z0-9]/g, '_')
Sanitize(title) ==
    [i \in DOMAIN title |-> IF title[i] \in Letters \cup Digits THEN title[i] ELSE "_"]

\* pptx.defineLayout({name: 'LAYOUT_16x9', width: 10, height: 5.625}), in thousandths
Layout16x9 == [name |-> "LAYOUT_16x9", width |-> 10000, height |-> 5625]

\* the master applyExtractedStyling defines, lines 499-530
ExtractedMaster(templateAnalysis) ==
    [title |-> "EXTRACTED_TEMPLATE",
     background |-> StripHash(templateAnalysis.themeData.colorScheme.background1),
     titleFont |-> templateAnalysis.themeData.fontScheme.majorFont,
     titleColor |-> StripHash(templateAnalysis.themeData.colorScheme.accent1),
     bodyFont |-> templateAnalysis.themeData.fontScheme.minorFont,
     bodyColor |-> StripHash(templateAnalysis.themeData.colorScheme.text1)]

NoAnalysisOut ==
    [raised |-> FALSE, result |-> <<>>, written |-> {}, drawn |-> 0, ioError |-> FALSE]

\* a plausible slip: a path that names no file is analysed all the same
UsesTemplate_noExistsCheck(templatePath, tpl) == templatePath # ""

\* templatePath && fs.existsSync(templatePath), line 448; "" is undefined
UsesTemplate(templatePath, tpl) == templatePath # "" /\ existsSync(templatePath, tpl)

\* lines 464-468: the document is written and its path returned unless the
\* analysis, a slide or the write raised
WriteFile(presentationData, first, faults, useTemplate, a, templateAnalysis, cause, stop, built) ==
    [raised |-> cause # "",
     cause |-> cause,
     outputPath |-> IF cause = ""
                    THEN <<[name |-> Sanitize(presentationData.title),
                            id |-> first + a.drawn + 1]>>
                    ELSE <<>>,
     saved |-> IF cause = ""
               THEN {[name |-> Sanitize(presentationData.title),
                      id |-> first + a.drawn + 1]}
               ELSE {},
     writeFile |-> IF cause = "" THEN "resolved"
                   ELSE IF cause = "write" THEN "rejected" ELSE "not called",
     analysed |-> useTemplate,
     analysisOut |-> a,
     templateAnalysis |-> templateAnalysis,
     pptx |-> [author |-> "Auto PPT Generator",
               title |-> presentationData.title,
               subject |-> "Generated Presentation",
               layout |-> Layout16x9,
               masters |-> IF templateAnalysis # <<>>
                           THEN <<ExtractedMaster(templateAnalysis[1])>> ELSE <<>>,
               slides |-> IF a.raised THEN <<>>
                          ELSE [i \in 1..(stop - 1) |-> built[i].slide]],
     drawn |-> a.drawn + IF cause \in {"", "write"} THEN 1 ELSE 0]

\* the first slide whose builder raises, one past the last when none does
FirstThrow(built) ==
    LET bad == {i \in DOMAIN built : built[i].threw}
    IN IF bad = {} THEN Len(built) + 1
       ELSE CHOOSE i \in bad : \A j \in bad : i <= j

\* what makes the promise of generatePresentation reject, "" when nothing does
Cause(a, stop, built, faults) ==
    IF a.raised THEN "template"
    ELSE IF stop <= Len(built) THEN "slide"
    ELSE IF ~faults.writeOk THEN "write"
    ELSE ""

\* lines 459-462: the slides the loop has built
AfterSlides(presentationData, first, faults, useTemplate, a, templateAnalysis, built) ==
    WriteFile(presentationData, first, faults, useTemplate, a, templateAnalysis,
              Cause(a, FirstThrow(built), built, faults), FirstThrow(built), built)

\* lines 453-462: styling, then one createSlide call per slide record
AddSlides(presentationData, options, disk, first, faults, useTemplate, a, templateAnalysis) ==
    AfterSlides(presentationData, first, faults, useTemplate, a, templateAnalysis,
                [i \in DOMAIN presentationData.slides |->
                    createSlide(presentationData.slides[i], options, templateAnalysis,
                                disk \cup a.written, faults.addImageOk)])

\* lines 446-451: templateAnalysis is null unless the template was analysed
AfterAnalysis(presentationData, options, disk, first, faults, useTemplate, a) ==
    AddSlides(presentationData, options, disk, first, faults, useTemplate, a,
              IF useTemplate /\ ~a.raised THEN <<a.result>> ELSE <<>>)

\* generatePresentation, lines 434-469.  faults: extractWrite is the extraction
\* write the disk refuses (0: none), addImageOk whether slide.addImage returns,
\* writeOk whether pptx.writeFile resolves.
generatePresentation(presentationData, templatePath, options, tpl, disk, first, faults) ==
    AfterAnalysis(presentationData, options, disk, first, faults,
                  UsesTemplate(templatePath, tpl),
                  IF UsesTemplate(templatePath, tpl)
                  THEN analyzeTemplate(templatePath, tpl, first, faults.extractWrite)
                  ELSE NoAnalysisOut)

(***************************************************************************)
(* Template files the behaviours start from                                *)
(***************************************************************************)
hexLower == <<"f", "f", "0", "0", "a", "a">>
hexUpper == <<"0", "0", "B", "0", "5", "0">>
hexMixed == <<"1", "a", "2", "B", "3", "c">>
notHex == <<"r", "e", "d">>
shortHex == <<"1", "2", "3", "4", "5">>

Val(v) == "val" :> v
Holder(kids) == <<El(NoAttrs, kids)>>

SlotShapes ==
    [srgbLower |-> Holder(<<Kid("a:srgbClr", <<El(Val(hexLower), <<>>)>>)>>),
     srgbPlain |-> Holder(<<Kid("srgbClr", <<El(Val(hexUpper), <<>>)>>)>>),
     srgbNotHex |-> Holder(<<Kid("a:srgbClr", <<El(Val(notHex), <<>>)>>)>>),
     srgbShort |-> Holder(<<Kid("a:srgbClr", <<El(Val(shortHex), <<>>)>>)>>),
     srgbNoVal |-> Holder(<<Kid("a:srgbClr", <<El(Val(<<>>), <<>>)>>)>>),
     sysClr |-> Holder(<<Kid("a:sysClr",
                   <<El(Val(<<"w", "i", "n">>) @@ ("lastClr" :> hexUpper), <<>>)>>)>>),
     sysThenSrgb |-> Holder(<<Kid("a:sysClr", <<El("lastClr" :> hexUpper, <<>>)>>),
                              Kid("a:srgbClr", <<El(Val(hexLower), <<>>)>>)>>),
     srgbChildVal |-> Holder(<<Kid("a:srgbClr",
                                  <<El(NoAttrs, <<Kid("val", <<EmptyTag>>)>>)>>),
                               Kid("a:sysClr", <<El("lastClr" :> hexUpper, <<>>)>>)>>),
     direct |-> <<El(Val(hexMixed), <<>>)>>,
     nested |-> Holder(<<Kid("a:prstClr", <<El(Val(notHex), <<>>)>>),
                         Kid("a:hslClr", <<El(Val(hexMixed), <<>>)>>)>>),
     nestedNotHex |-> Holder(<<Kid("a:schemeClr", <<El(Val(notHex), <<>>)>>)>>),
     colorAttr |-> Holder(<<Kid("a:custClr", <<El("color" :> hexMixed, <<>>)>>)>>),
     emptyTag |-> <<EmptyTag>>,
     absent |-> <<>>]

FontEl(typeface) == <<El(NoAttrs, <<Kid("a:latin", <<El("typeface" :> typeface, <<>>)>>)>>)>>

FontShapes ==
    [arial |-> FontEl("Arial"), georgia |-> FontEl("Georgia"),
     unknown |-> FontEl("unknown"), blank |-> FontEl(""),
     noLatin |-> <<El(NoAttrs, <<Kid("a:ea", <<El("typeface" :> "SimSun", <<>>)>>)>>)>>,
     childTypeface |-> <<El(NoAttrs, <<Kid("a:latin",
                           <<El(NoAttrs, <<Kid("typeface", <<EmptyTag>>)>>)>>)>>)>>,
     absent |-> <<>>]

\* the children that are present, in document order
Kids(names, items) ==
    LET all == [i \in DOMAIN names |-> Kid(names[i], items[i])]
    IN SelectSeq(all, LAMBDA k : k.items # <<>>)

\* <a:theme><a:themeElements><a:clrScheme>..</a:clrScheme><a:fontScheme>..
ThemeDoc(slotShape, major, minor) ==
    [rootKey |-> "a:theme",
     root |-> El(NoAttrs, <<Kid("a:themeElements", <<El(NoAttrs,
        <<Kid("a:clrScheme",
              <<El(NoAttrs, Kids([i \in DOMAIN SlotOrder |-> "a:" \o SlotTag[SlotOrder[i]]],
                                 [i \in DOMAIN SlotOrder |-> slotShape[SlotOrder[i]]]))>>),
          Kid("a:fontScheme",
              <<El(NoAttrs, Kids(<<"a:majorFont", "a:minorFont">>, <<major, minor>>))>>)
        >>)>>)>>)]

Parsed(doc) == [state |-> "parsed", doc |-> doc]
NoDoc == [rootKey |-> "", root |-> EmptyTag]

PlainTheme ==
    Parsed(ThemeDoc([s \in SlotNames |-> SlotShapes.srgbLower],
                    FontShapes.arial, FontShapes.georgia))

ThemeParts ==
    {[state |-> st, doc |-> NoDoc] : st \in {"absent", "unreadable", "malformed"}}
    \cup {Parsed(ThemeDoc([s \in SlotNames |-> SlotShapes[sh]],
                          FontShapes.arial, FontShapes.georgia)) :
            sh \in DOMAIN SlotShapes}
    \cup {Parsed(ThemeDoc([s \in SlotNames |->
                             IF s = p THEN SlotShapes[sh] ELSE SlotShapes.absent],
                          FontShapes.arial, FontShapes.absent)) :
            p \in SlotNames, sh \in {"srgbLower", "srgbNotHex"}}
    \cup {Parsed(ThemeDoc([s \in SlotNames |-> SlotShapes.sysClr],
                          FontShapes[f], FontShapes[g])) :
            f \in DOMAIN FontShapes, g \in {"unknown", "noLatin"}}
    \cup {Parsed(ThemeDoc([s \in SlotNames |->
                             IF s = "accent1" THEN SlotShapes.srgbChildVal
                             ELSE SlotShapes.srgbLower],
                          FontShapes.arial, FontShapes.georgia))}
    \cup {Parsed([rootKey |-> "theme", root |-> PlainTheme.doc.root]),
          Parsed([rootKey |-> "a:styleSheet", root |-> PlainTheme.doc.root]),
          Parsed([rootKey |-> "a:theme", root |-> EmptyTag]),
          Parsed([rootKey |-> "a:theme",
                  root |-> El(NoAttrs, <<Kid("a:objectDefaults", <<EmptyTag>>)>>)]),
          Parsed([rootKey |-> "a:theme",
                  root |-> El(NoAttrs, <<Kid("a:themeElements", <<El(NoAttrs,
                              <<Kid("a:clrScheme", <<EmptyTag>>),
                                Kid("a:fontScheme", <<EmptyTag>>)>>)>>)>>)])}

Media(word, num, ext, size, ok) == Entry(<<"ppt", "media">>, word, num, ext, size, ok)

StructureEntries ==
    <<Entry(<<"ppt", "slides">>, "slide", "1", "xml", 9, TRUE),
      Entry(<<"ppt", "slides">>, "slide", "10", "xml", 9, TRUE),
      Entry(<<"ppt", "slides">>, "slide", "", "xml", 9, TRUE),
      Entry(<<"ppt", "slides", "_rels">>, "slide1.xml", "", "rels", 4, TRUE),
      Entry(<<"ppt", "notesSlides">>, "notesSlide", "1", "xml", 7, TRUE),
      Entry(<<"ppt", "slideLayouts">>, "slideLayout", "1", "xml", 8, TRUE),
      Entry(<<"ppt", "theme">>, "theme", "2", "xml", 8, TRUE)>>

FileLists ==
    {<<>>,
     StructureEntries,
     <<Media("image", "1", "png", 3, TRUE)>> \o StructureEntries,
     <<Media("image", "1", "PNG", 3, TRUE), Media("photo", "", "jpeg", 5, TRUE)>>,
     <<Media("image", "1", "gif", 2, TRUE),
       Entry(<<"ppt", "embeddings">>, "image", "2", "png", 4, TRUE),
       Media("chart", "", "svg", 6, TRUE),
       Media("image", "3", "xml", 1, TRUE),
       Entry(<<"ppt", "media", "hd">>, "image", "1", "gif", 7, TRUE)>>,
     <<Media("image", "1", "emf", 3, FALSE), Media("image", "2", "wmf", 5, TRUE)>>,
     <<Media("image", "1", "JPG", 3, TRUE), Media("image", "2", "jpg", 5, FALSE)>>}

Zip(theme, master, files) ==
    [kind |-> "zip", zip |-> [theme |-> theme, master |-> master, files |-> files]]

CorruptFile ==
    [kind |-> "corrupt",
     zip |-> [theme |-> [state |-> "absent", doc |-> NoDoc], master |-> "absent",
              files |-> <<>>]]

TemplateFiles ==
    {CorruptFile}
    \cup {Zip(th, "ok", <<Media("image", "1", "png", 3, TRUE)>>) : th \in ThemeParts}
    \cup {Zip(PlainTheme, m, f) : m \in {"ok", "absent", "unreadable"}, f \in FileLists}

(***************************************************************************)
(* Content models the callers submit                                       *)
(***************************************************************************)
\* paragraphs of a two-column content before the model stops adding one
MaxParas == 4

Paragraphs == {<<"a">>, <<"b", NL, "c">>}

\* the lists of 1..MaxParas paragraphs
ParaLists == UNION {[1..n -> Paragraphs] : n \in 1..MaxParas}

SlideData(layout, content, speakerNotes) ==
    [slideNumber |-> 1, title |-> <<"T">>, content |-> content, layout |-> layout,
     speakerNotes |-> speakerNotes]

Layouts ==
    {"title_slide", "content", "two_column", "image_content", "conclusion",
     "weird", ""}

Contents ==
    {undefined, <<>>, <<"a", NL, NL, NL, "b">>}
    \cup {join([i \in 1..n |-> IF i % 2 = 1 THEN <<"a">> ELSE <<"b", NL, "c">>]) :
            n \in 1..MaxParas}

Deck(title, slides, totalSlides) ==
    [title |-> title, slides |-> slides, totalSlides |-> totalSlides,
     estimatedDuration |-> "5 minutes"]

SlideRecords ==
    {SlideData(l, c, n) : l \in Layouts, c \in Contents, n \in {"", "Say hello"}}

NotesDeck == Deck(<<"Q", "3">>, <<SlideData("weird", <<"a">>, "Say hello")>>, 1)

ContentModels ==
    {Deck(<<"a", " ", "&", "b">>, <<>>, 3),
     NotesDeck,
     Deck(<<"a", " ", "&", "b">>,
          <<SlideData("title_slide", <<"a">>, ""),
            SlideData("two_column", undefined, ""),
            SlideData("conclusion", <<"a">>, "")>>, 3),
     Deck(<<"Q", "3">>,
          <<SlideData("image_content", <<"a">>, ""),
            SlideData("two_column", <<"a", NL, NL, "b">>, "Say hello"),
            SlideData("image_content", undefined, "")>>, 7)}

Options ==
    {<<>>} \cup
    {<<[generateNotes |-> g, reuseImages |-> TRUE, preserveLayouts |-> TRUE,
        matchFonts |-> TRUE]>> : g \in {"auto", "detailed", "brief", "none"}}
    \cup {<<[generateNotes |-> "auto", reuseImages |-> FALSE, preserveLayouts |-> FALSE,
             matchFonts |-> FALSE]>>}

\* the (content model, options) pairs generatePresentation is called with
Calls ==
    {<<d, <<>>>> : d \in ContentModels}
    \cup {<<NotesDeck, o>> : o \in {p \in Options : GenerateNotes(p) = "none"}}

\* the templates generation runs against
GenTemplates ==
    {CorruptFile,
     Zip(PlainTheme, "ok", <<>>),
     Zip(PlainTheme, "ok", <<Media("image", "1", "png", 3, TRUE)>>),
     Zip([state |-> "absent", doc |-> NoDoc], "absent",
         <<Media("image", "1", "emf", 3, FALSE), Media("image", "2", "wmf", 5, TRUE)>>)}

(***************************************************************************)
(* The service                                                             *)
(***************************************************************************)
NoCall == [op |-> "none"]

\* the analyses createSlide is handed: none, or what analyzeTemplate returns for a
\* template, with the images directory as it is when the slide is built
SlideAnalyses ==
    {[templateAnalysis |-> <<>>, disk |-> {}]}
    \cup UNION {{[templateAnalysis |-> <<analyzeTemplate(TemplatePath, tpl, 0, 0).result>>,
                  disk |-> d] :
                   d \in {analyzeTemplate(TemplatePath, tpl, 0, 0).written, {}}} :
                 tpl \in GenTemplates
                        \cup {Zip(PlainTheme, "ok",
                                  <<Media("image", "1", "PNG", 3, TRUE),
                                    Media("photo", "", "jpeg", 5, TRUE)>>)}}

\* callers that may have a call of the service in flight at once
MaxCallers == 2

Callers == 1..MaxCallers

\* a caller with no call in flight
Idle == [pc |-> "idle"]

\* what has been done to the disk so far: the paths written, those written more
\* than once, the ids the last cleanup was given, and the parity of the number of
\* cleanups
NoHistory == [written |-> {}, overwritten |-> {}, cleanup |-> {}, cleanups |-> 0]

InitService ==
    /\ calls = [c \in Callers |-> Idle]
    /\ history = NoHistory
    /\ slideCall = NoCall
    /\ slideOut = NoCall
    /\ imagesDir = {}
    /\ uploadsDir = {}
    /\ uuid = 0
    /\ analysis = NoCall
    /\ firstAnalysis = [clean |-> NoCall, faulted |-> NoCall]
    /\ generation = NoCall

Init == template \in GenTemplates /\ InitService

InitAnalysis == template \in TemplateFiles /\ InitService

InitSlides ==
    /\ template = CorruptFile
    /\ calls = [c \in Callers |-> Idle]
    /\ history = NoHistory
    /\ imagesDir = {}
    /\ uploadsDir = {}
    /\ uuid = 0
    /\ analysis = NoCall
    /\ firstAnalysis = [clean |-> NoCall, faulted |-> NoCall]
    /\ generation = NoCall
    /\ slideOut = NoCall
    /\ \E slideData \in SlideRecords, options \in Options, a \in SlideAnalyses,
          addImageOk \in BOOLEAN :
          slideCall = [op |-> "createSlide", slideData |-> slideData,
                       options |-> options, templateAnalysis |-> a.templateAnalysis,
                       disk |-> a.disk, addImageOk |-> addImageOk]

\* the ids a call on filePath may draw
Draws(filePath) ==
    IF OpensAsZip(filePath, template) THEN Len(mediaFiles(template.zip)) ELSE 0

\* what the model remembers of an analyzeTemplate call
AnalysisCall(filePath, out) ==
    [op |-> "analyzeTemplate", filePath |-> filePath, raised |-> out.raised,
     result |-> out.result, ioError |-> out.ioError, written |-> out.written]

Remember(call) ==
    IF call.filePath # TemplatePath THEN firstAnalysis
    ELSE IF call.ioError /\ firstAnalysis.faulted = NoCall
         THEN [firstAnalysis EXCEPT !.faulted = call]
    ELSE IF ~call.ioError /\ firstAnalysis.clean = NoCall
         THEN [firstAnalysis EXCEPT !.clean = call]
    ELSE firstAnalysis

\* await pptxService.analyzeTemplate(filePath)
AnalyzeTemplate(filePath, writeFail) ==
    /\ uuid + Draws(filePath) <= MaxUuid
    /\ \E out \in {analyzeTemplate(filePath, template, uuid, writeFail)} :
          /\ imagesDir' = imagesDir \cup out.written
          /\ uuid' = uuid + out.drawn
          /\ analysis' = AnalysisCall(filePath, out)
          /\ firstAnalysis' = Remember(AnalysisCall(filePath, out))
    /\ UNCHANGED <<template, uploadsDir, generation, slideCall, slideOut, calls, history>>

\* await pptxService.generatePresentation(presentationData, templatePath, options)
GeneratePresentation(presentationData, templatePath, options, faults) ==
    /\ uuid + Draws(templatePath) + 1 <= MaxUuid
    /\ \E out \in {generatePresentation(presentationData, templatePath, options,
                                         template, imagesDir, uuid, faults)} :
          /\ imagesDir' = imagesDir \cup out.analysisOut.written
          /\ uploadsDir' = uploadsDir \cup out.saved
          /\ uuid' = uuid + out.drawn
          /\ analysis' = IF out.analysed
                         THEN AnalysisCall(templatePath, out.analysisOut)
                         ELSE analysis
          /\ firstAnalysis' = IF out.analysed
                              THEN Remember(AnalysisCall(templatePath, out.analysisOut))
                              ELSE firstAnalysis
          /\ generation' =
                [op |-> "generatePresentation", presentationData |-> presentationData,
                 templatePath |-> templatePath, options |-> options,
                 raised |-> out.raised, cause |-> out.cause,
                 writeFile |-> out.writeFile,
                 outputPath |-> out.outputPath, analysed |-> out.analysed,
                 templateAnalysis |-> out.templateAnalysis, pptx |-> out.pptx]
    /\ UNCHANGED <<template, slideCall, slideOut, calls, history>>

\* the name of a file of the images directory, `${imageId}_${fileName}` of line 205
StoredName(f) == <<f.id, "_">> \o f.name

\* String.prototype.startsWith
startsWith(s, prefix) ==
    Len(prefix) <= Len(s) /\ SubSeq(s, 1, Len(prefix)) = prefix

\* a plausible slip: the filter is left out, and every file listed is unlinked
Listed_unfiltered(dir, imageId) == dir

\* fs.readdirSync(this.imagesDir).filter(f => f.startsWith(`${imageId}_`)), line 840
Listed(dir, imageId) == {f \in dir : startsWith(StoredName(f), <<imageId, "_">>)}

\* cleanupExtractedImages(imageIds), lines 837-849: every file listed for an id is
\* unlinked.  The directory is the service's own and nothing else runs during the
\* loops, so readdirSync and the unlinkSync of a file just listed do not throw and
\* the catch of line 846 is not reached
Unlinked(dir, imageIds) == dir \ UNION {Listed(dir, imageId) : imageId \in imageIds}

cleanupExtractedImages(imageIds) ==
    /\ imagesDir' = Unlinked(imagesDir, imageIds)
    /\ UNCHANGED <<template, uploadsDir, uuid, analysis, firstAnalysis, generation,
                   slideCall, slideOut, calls, history>>

\* the ids of the records the last analysis returned
ReturnedIds ==
    IF analysis = NoCall THEN {}
    ELSE {analysis.result.extractedImages[i].id :
            i \in DOMAIN analysis.result.extractedImages}

\* this.createSlide(pptx, slideData, options, templateAnalysis)
CreateSlide ==
    /\ slideCall # NoCall
    /\ slideOut = NoCall
    /\ slideOut' = createSlide(slideCall.slideData, slideCall.options,
                               slideCall.templateAnalysis, slideCall.disk,
                               slideCall.addImageOk)
    /\ UNCHANGED <<template, imagesDir, uploadsDir, uuid, analysis, firstAnalysis,
                   generation, slideCall, calls, history>>

Analyze ==
    \E filePath \in {TemplatePath, MissingPath} :
       \E writeFail \in 0..Draws(filePath) : AnalyzeTemplate(filePath, writeFail)

\* the I/O errors a generatePresentation call may meet: none, the k-th write of
\* extractImages, slide.addImage, or pptx.writeFile
Faults(templatePath) ==
    {[extractWrite |-> 0, addImageOk |-> TRUE, writeOk |-> TRUE],
     [extractWrite |-> 0, addImageOk |-> FALSE, writeOk |-> TRUE],
     [extractWrite |-> 0, addImageOk |-> TRUE, writeOk |-> FALSE]}
    \cup {[extractWrite |-> k, addImageOk |-> TRUE, writeOk |-> TRUE] :
            k \in 1..Draws(templatePath)}

Generate ==
    \E call \in Calls, templatePath \in {"", TemplatePath, MissingPath} :
       \E faults \in Faults(templatePath) :
          GeneratePresentation(call[1], templatePath, call[2], faults)

Cleanup ==
    \E imageIds \in {ReturnedIds} \cup {{f.id} : f \in imagesDir} :
       imageIds # {} /\ cleanupExtractedImages(imageIds)

Next == Analyze \/ Generate \/ Cleanup

Spec == Init /\ [][Next]_vars

NextAnalysis == Analyze \/ Cleanup

SpecAnalysis == InitAnalysis /\ [][NextAnalysis]_vars

\* generation of one content model on the template
GenerateOnTemplate ==
    \E faults \in Faults(TemplatePath) :
       GeneratePresentation(NotesDeck, TemplatePath, <<>>, faults)

\* cleanup with the ids of the last analysis, with the id of one file on disk, or
\* with an id no file has; the call is noted in history
CleanupNoted ==
    \E imageIds \in {ReturnedIds} \cup {{f.id} : f \in imagesDir} \cup {{0}} :
       /\ imageIds # {}
       /\ imagesDir' = Unlinked(imagesDir, imageIds)
       /\ history' = [history EXCEPT !.cleanup = imageIds, !.cleanups = 1 - @]
       /\ UNCHANGED <<template, uploadsDir, uuid, analysis, firstAnalysis, generation,
                      slideCall, slideOut, calls>>

NextCleanup == Analyze \/ GenerateOnTemplate \/ CleanupNoted

SpecCleanup == Init /\ [][NextCleanup]_vars

NextSlides == CreateSlide

SpecSlides == InitSlides /\ [][NextSlides]_vars

(***************************************************************************)
(* A call step by step: analyzeTemplate and generatePresentation are async *)
(* functions, and between two awaits of one call the steps of another may  *)
(* run.  Each action below is the code of one call from one await to the   *)
(* next; the promise awaited settles when the action fires.                *)
(***************************************************************************)
\* a promise of one extraction: pending at an await, or settled with a value;
\* caught tells whether the extraction's own catch produced the value
Awaiting(at) == [pc |-> at, caught |-> FALSE, value |-> <<>>, next |-> 1]
Settled(value, caught) == [pc |-> "done", caught |-> caught, value |-> <<value>>, next |-> 1]

\* the ids the calls in flight, but for caller c's, may still draw
RECURSIVE Reserved(_, _)
Reserved(S, c) ==
    IF S = {} THEN 0
    ELSE LET d == CHOOSE x \in S : TRUE
         IN (IF d # c /\ calls[d].pc \notin {"idle", "done"}
             THEN calls[d].budget - calls[d].drawn ELSE 0)
            + Reserved(S \ {d}, c)

\* a write of path: the path joins those written, and those written more than
\* once when it was written before
Log(h, path) ==
    [h EXCEPT !.written = @ \cup {path},
              !.overwritten = @ \cup (IF path \in h.written THEN {path} ELSE {})]

\* the fields of a call when it starts
NewCall(op, filePath, writeFail, budget) ==
    [pc |-> "open", op |-> op, filePath |-> filePath, writeFail |-> writeFail,
     budget |-> budget, drawn |-> 0, first |-> uuid,
     theme |-> Awaiting("start"), images |-> Awaiting("start"),
     structure |-> Awaiting("start"),
     joined |-> FALSE, raised |-> FALSE, result |-> <<>>, written |-> {},
     extracted |-> <<>>, deck |-> <<>>, options |-> <<>>, faults |-> <<>>,
     slides |-> <<>>, outputPath |-> <<>>]

\* the catch of analyzeTemplate, lines 119-142, taken by the call of caller c
CaughtCall(call) ==
    [call EXCEPT !.pc = IF call.op = "analyzeTemplate" THEN "done" ELSE "analysed",
                 !.result = <<BaselineAnalysis>>]

\* analyzeTemplate(filePath) is called, lines 82-92: a path that names no file
\* throws at line 87, else the call awaits JSZip.loadAsync
BeginAnalyze(c, filePath, writeFail) ==
    /\ calls[c].pc = "idle"
    /\ uuid + Reserved(Callers, c) + Draws(filePath) <= MaxUuid
    /\ calls' = [calls EXCEPT ![c] =
          IF existsSync(filePath, template)
          THEN NewCall("analyzeTemplate", filePath, writeFail, Draws(filePath))
          ELSE CaughtCall(NewCall("analyzeTemplate", filePath, writeFail, 0))]
    /\ UNCHANGED <<template, imagesDir, uploadsDir, uuid, analysis, firstAnalysis,
                   generation, slideCall, slideOut, history>>

\* extractThemeData up to its first await, lines 147-157
ThemeStart(zip) ==
    IF zip.theme.state = "absent" THEN Settled(getDefaultThemeData, FALSE)
    ELSE Awaiting("read")

\* extractImages up to its first await, lines 187-201
ImagesStart(zip) ==
    IF mediaFiles(zip) = <<>> THEN Settled(<<>>, FALSE) ELSE Awaiting("read")

\* analyzeSlideStructure up to its first await, lines 238-257
StructureStart(zip) ==
    IF zip.master = "absent" THEN Settled(analyzeSlideStructure(zip), FALSE)
    ELSE Awaiting("read")

\* JSZip.loadAsync settles, lines 92-100: rejected, the catch of line 119 returns
\* the baseline; resolved, the three extractions start inside Promise.all
Opened(c) ==
    /\ calls[c].pc = "open"
    /\ calls' = [calls EXCEPT ![c] =
          IF template.kind = "zip"
          THEN [calls[c] EXCEPT !.pc = "extract",
                                !.theme = ThemeStart(template.zip),
                                !.images = ImagesStart(template.zip),
                                !.structure = StructureStart(template.zip)]
          ELSE CaughtCall(calls[c])]
    /\ UNCHANGED <<template, imagesDir, uploadsDir, uuid, analysis, firstAnalysis,
                   generation, slideCall, slideOut, history>>

\* a plausible slip: the catch of extractThemeData throws the error on, so that
\* Promise.all rejects and the catch of analyzeTemplate returns the baseline
ThemeCatch_rethrow(call) == CaughtCall(call)

\* the catch of extractThemeData, lines 179-182
ThemeCatch(call) == [call EXCEPT !.theme = Settled(getDefaultThemeData, TRUE)]

\* themeFile.async('string') settles, lines 157-159
ThemeRead(c) ==
    /\ calls[c].pc = "extract"
    /\ calls[c].theme.pc = "read"
    /\ calls' = [calls EXCEPT ![c] =
          IF template.zip.theme.state = "unreadable"
          THEN ThemeCatch(calls[c])
          ELSE [calls[c] EXCEPT !.theme = Awaiting("parse")]]
    /\ UNCHANGED <<template, imagesDir, uploadsDir, uuid, analysis, firstAnalysis,
                   generation, slideCall, slideOut, history>>

\* what extractThemeData returns for each theme part of the catalogue
ExtractedTheme == [themePart \in ThemeParts |-> extractThemeData(themePart)]

\* parser.parseStringPromise settles, lines 159-177: rejected, the catch runs;
\* resolved, the colour and font schemes are parsed and returned
ThemeParseStep(call, themePart) ==
    IF themePart.state = "malformed" THEN ThemeCatch(call)
    ELSE [call EXCEPT !.theme = Settled(ExtractedTheme[themePart], FALSE)]

ThemeParsed(c) ==
    /\ calls[c].pc = "extract"
    /\ calls[c].theme.pc = "parse"
    /\ \E next \in {ThemeParseStep(calls[c], template.zip.theme)} :
          calls' = [calls EXCEPT ![c] = next]
    /\ UNCHANGED <<template, imagesDir, uploadsDir, uuid, analysis, firstAnalysis,
                   generation, slideCall, slideOut, history>>

\* a plausible slip: ids counted from the moment the call started
randomUUID_perCall(drawn, call) == call.first + call.drawn + 1

\* randomUUID(), lines 204 and 465: a value no earlier draw returned; drawn is the
\* number of draws so far
randomUUID(drawn, call) == drawn + 1

\* the path of an extracted image and of a generated document, as one value
ImagePath(id, e) == <<"extracted_images", id, BaseName(e)>>
OutputPath(name, id) == <<"uploads", id, name>>

\* the body of the loop of extractImages for the media file the call is at, lines
\* 199-221, on file.async('nodebuffer') settling: a rejected read or a refused
\* write is caught at line 226 and settles the extraction with the empty list
ImageStep(call, media, i, id) ==
    IF ~media[i].ok
    THEN [call EXCEPT !.images = Settled(<<>>, TRUE)]
    ELSE IF i = call.writeFail
    THEN [call EXCEPT !.images = Settled(<<>>, TRUE), !.drawn = @ + 1]
    ELSE [call EXCEPT
            !.drawn = @ + 1,
            !.written = @ \cup {ExtractedFile(id, media[i])},
            !.extracted = Append(@, ImageRecord(media, call.filePath, id - i, i)),
            !.images = IF i = Len(media)
                       THEN Settled(Append(call.extracted,
                                           ImageRecord(media, call.filePath, id - i, i)),
                                    FALSE)
                       ELSE [Awaiting("read") EXCEPT !.next = i + 1]]

ImageRead(c) ==
    /\ calls[c].pc = "extract"
    /\ calls[c].images.pc = "read"
    /\ \E next \in {ImageStep(calls[c], mediaFiles(template.zip), calls[c].images.next,
                              randomUUID(uuid, calls[c]))} :
          /\ calls' = [calls EXCEPT ![c] = next]
          /\ uuid' = uuid + (next.drawn - calls[c].drawn)
          /\ imagesDir' = imagesDir \cup next.written
          /\ history' =
                IF next.written = calls[c].written THEN history
                ELSE Log(history,
                         ImagePath(randomUUID(uuid, calls[c]),
                                   mediaFiles(template.zip)[calls[c].images.next]))
    /\ UNCHANGED <<template, uploadsDir, analysis, firstAnalysis, generation, slideCall,
                   slideOut>>

\* masterFile.async('string') settles, lines 257-264: the inner catch pushes the
\* names the try pushes
MasterRead(c) ==
    /\ calls[c].pc = "extract"
    /\ calls[c].structure.pc = "read"
    /\ calls' = [calls EXCEPT ![c].structure =
          Settled(analyzeSlideStructure(template.zip),
                  template.zip.master = "unreadable")]
    /\ UNCHANGED <<template, imagesDir, uploadsDir, uuid, analysis, firstAnalysis,
                   generation, slideCall, slideOut, history>>

\* what extractImages resolved with, as the aggregate reads it
ExtractedOf(call) ==
    [images |-> call.images.value[1], written |-> call.written, drawn |-> call.drawn,
     threw |-> call.images.caught]

\* Promise.all resolves, lines 96-117: the three extractions have settled and the
\* aggregate is returned
Join(c) ==
    /\ calls[c].pc = "extract"
    /\ calls[c].theme.pc = "done"
    /\ calls[c].images.pc = "done"
    /\ calls[c].structure.pc = "done"
    /\ calls' = [calls EXCEPT ![c] =
          [calls[c] EXCEPT
             !.pc = IF calls[c].op = "analyzeTemplate" THEN "done" ELSE "analysed",
             !.joined = TRUE,
             !.result = <<Aggregate(calls[c].theme.value[1], ExtractedOf(calls[c]),
                                    calls[c].structure.value[1]).result>>]]
    /\ UNCHANGED <<template, imagesDir, uploadsDir, uuid, analysis, firstAnalysis,
                   generation, slideCall, slideOut, history>>

\* the caller has its promise settled and may call again
Return(c) ==
    /\ calls[c].pc = "done"
    /\ calls' = [calls EXCEPT ![c] = Idle]
    /\ UNCHANGED <<template, imagesDir, uploadsDir, uuid, analysis, firstAnalysis,
                   generation, slideCall, slideOut, history>>

\* generatePresentation(presentationData, templatePath, options) is called, lines
\* 434-450: with a template it awaits analyzeTemplate, without one it goes on to
\* the slides
BeginGenerate(c, presentationData, templatePath, options, faults) ==
    /\ calls[c].pc = "idle"
    /\ uuid + Reserved(Callers, c) + Draws(templatePath) + 1 <= MaxUuid
    /\ calls' = [calls EXCEPT ![c] =
          [NewCall("generatePresentation", templatePath, faults.extractWrite,
                   Draws(templatePath) + 1)
           EXCEPT !.pc = IF UsesTemplate(templatePath, template) THEN "open"
                         ELSE "analysed",
                  !.deck = <<presentationData>>,
                  !.options = options,
                  !.faults = <<faults>>]]
    /\ UNCHANGED <<template, imagesDir, uploadsDir, uuid, analysis, firstAnalysis,
                   generation, slideCall, slideOut, history>>

\* lines 451-466, from analyzeTemplate resolving to await pptx.writeFile: styling,
\* one createSlide per record (a builder that throws rejects the call), then the
\* output name is made of the title and a fresh id
SlidesStep(call, disk, drawn) ==
    LET built == [i \in DOMAIN call.deck[1].slides |->
                    createSlide(call.deck[1].slides[i], call.options, call.result,
                                disk, call.faults[1].addImageOk)]
    IN IF FirstThrow(built) <= Len(built)
       THEN [call EXCEPT !.pc = "done", !.raised = TRUE,
                         !.slides = [i \in 1..(FirstThrow(built) - 1) |-> built[i].slide]]
       ELSE [call EXCEPT !.pc = "write", !.drawn = @ + 1,
                         !.slides = [i \in DOMAIN built |-> built[i].slide],
                         !.outputPath = <<[name |-> Sanitize(call.deck[1].title),
                                           id |-> randomUUID(drawn, call)]>>]

Slides(c) ==
    /\ calls[c].pc = "analysed"
    /\ \E next \in {SlidesStep(calls[c], imagesDir, uuid)} :
          /\ calls' = [calls EXCEPT ![c] = next]
          /\ uuid' = uuid + (next.drawn - calls[c].drawn)
    /\ UNCHANGED <<template, imagesDir, uploadsDir, analysis, firstAnalysis, generation,
                   slideCall, slideOut, history>>

\* pptx.writeFile settles, lines 466-469: resolved, the document is on disk and
\* its path is returned; rejected, the call rejects
WriteSettled(c) ==
    /\ calls[c].pc = "write"
    /\ IF calls[c].faults[1].writeOk
       THEN /\ uploadsDir' = uploadsDir \cup {calls[c].outputPath[1]}
            /\ history' = Log(history, OutputPath(calls[c].outputPath[1].name,
                                                  calls[c].outputPath[1].id))
            /\ calls' = [calls EXCEPT ![c].pc = "done"]
       ELSE /\ calls' = [calls EXCEPT ![c].pc = "done", ![c].raised = TRUE,
                                      ![c].outputPath = <<>>]
            /\ UNCHANGED <<uploadsDir, history>>
    /\ UNCHANGED <<template, imagesDir, uuid, analysis, firstAnalysis, generation,
                   slideCall, slideOut>>

\* the steps of an analyzeTemplate call after it has started
AnalysisStep(c) ==
    \/ Opened(c)
    \/ ThemeRead(c)
    \/ ThemeParsed(c)
    \/ ImageRead(c)
    \/ MasterRead(c)
    \/ Join(c)

\* one caller calling analyzeTemplate again and again
StartOne ==
    \E filePath \in {TemplatePath, MissingPath} :
       \E writeFail \in 0..Draws(filePath) : BeginAnalyze(1, filePath, writeFail)

NextOneCall == StartOne \/ AnalysisStep(1) \/ Return(1)

\* Node runs the continuation of every promise that has settled, and the promises
\* of JSZip and xml2js settle: a step that can be taken is taken
SpecOneCall == InitAnalysis /\ [][NextOneCall]_vars /\ WF_vars(AnalysisStep(1))

\* the generation calls without options whose content models share a title
SameTitleCalls == {call \in Calls : call[1].title = NotesDeck.title /\ call[2] = <<>>}

\* the templates the concurrent calls run against: no archive, and an archive
\* whose only await after loadAsync is the read of its image
ConcurrentTemplates ==
    {CorruptFile,
     Zip([state |-> "absent", doc |-> NoDoc], "absent",
         <<Media("image", "1", "png", 3, TRUE)>>)}

InitConcurrent == template \in ConcurrentTemplates /\ InitService

\* callers are interchangeable: they make their calls in the order of their numbers
InOrder(c) == \A d \in Callers : d < c => calls[d].pc # "idle"

StartAnalysis(c) ==
    /\ InOrder(c)
    /\ \E writeFail \in 0..Draws(TemplatePath) : BeginAnalyze(c, TemplatePath, writeFail)

\* the I/O errors of a concurrent generation: none, or the first extraction write
ConcurrentFaults(templatePath) == {f \in Faults(templatePath) : f.addImageOk /\ f.writeOk}

StartGeneration(c) ==
    /\ InOrder(c)
    /\ \E call \in SameTitleCalls, templatePath \in {"", TemplatePath} :
          \E faults \in ConcurrentFaults(templatePath) :
             BeginGenerate(c, call[1], templatePath, call[2], faults)

\* each caller makes one call, and the calls interleave at their awaits
NextConcurrent ==
    \E c \in Callers :
       \/ StartAnalysis(c)
       \/ StartGeneration(c)
       \/ Opened(c)
       \/ ImageRead(c)
       \/ Join(c)
       \/ Slides(c)
       \/ WriteSettled(c)

SpecConcurrent == InitConcurrent /\ [][NextConcurrent]_vars

(***************************************************************************)
(* Properties of template analysis (SpecAnalysis)                          *)
(***************************************************************************)
\* an analyzeTemplate call on the template's path has returned
Analysed == analysis.op = "analyzeTemplate" /\ analysis.filePath = TemplatePath

\* C1: analyzeTemplate on a path that names no file, or on bytes that do not open
\* as a zip archive, does not raise and returns exactly the baseline analysis:
\* 12 slides, 0 images, 5 layouts, the colours #2563EB #64748B #10B981 #F59E0B,
\* the fonts Calibri and Arial, the five default layout names and no extracted
\* image.
C1_BaselineOnUnreadable ==
    (analysis.op = "analyzeTemplate" /\ ~OpensAsZip(analysis.filePath, template)) =>
        /\ ~analysis.raised
        /\ analysis.result.slideCount = 12
        /\ analysis.result.imageCount = 0
        /\ analysis.result.layoutCount = 5
        /\ analysis.result.colors =
              <<Hash(<<"2", "5", "6", "3", "E", "B">>), Hash(<<"6", "4", "7", "4", "8", "B">>),
                Hash(<<"1", "0", "B", "9", "8", "1">>), Hash(<<"F", "5", "9", "E", "0", "B">>)>>
        /\ analysis.result.fonts = <<"Calibri", "Arial">>
        /\ analysis.result.masterLayouts =
              <<"Title Slide", "Content", "Two Column", "Image & Content",
                "Section Header">>
        /\ analysis.result.extractedImages = <<>>

\* C1 happens: a file that is no archive has been analysed, and so has a path
\* that names no file
C1_Witness ==
    \/ Analysed /\ template.kind = "corrupt" /\ analysis.result.slideCount = 12
    \/ /\ analysis.op = "analyzeTemplate" /\ analysis.filePath = MissingPath
       /\ template.kind = "zip" /\ analysis.result.slideCount = 12

\* C2: for a container with no part at ppt/theme/theme1.xml the theme returned is,
\* without error, the fixed default theme: the twelve colours #FFFFFF #000000
\* #E7E6E6 #44546A #5B9BD5 #70AD47 #A5A5A5 #FFC000 #4472C4 #C5504B #0066CC #954F72
\* and Calibri for both fonts.
C2_DefaultThemeWithoutThemePart ==
    (Analysed /\ template.kind = "zip" /\ template.zip.theme.state = "absent") =>
        /\ ~analysis.raised
        /\ analysis.result.themeData =
              [colorScheme |->
                  [background1 |-> cFFFFFF, text1 |-> c000000, background2 |-> cE7E6E6,
                   text2 |-> c44546A, accent1 |-> c5B9BD5, accent2 |-> c70AD47,
                   accent3 |-> cA5A5A5, accent4 |-> cFFC000, accent5 |-> c4472C4,
                   accent6 |-> cC5504B, hyperlink |-> c0066CC,
                   followedHyperlink |-> c954F72],
               fontScheme |-> [majorFont |-> "Calibri", minorFont |-> "Calibri"]]

\* C2 happens: an archive without a theme part, holding an image, has been analysed
C2_Witness ==
    /\ Analysed /\ template.kind = "zip" /\ template.zip.theme.state = "absent"
    /\ analysis.result.imageCount = 1

\* s matches ^#[0-9A-F]{6}$
IsHashUpperHex6(s) ==
    /\ Len(s) = 7
    /\ s[1] = "#"
    /\ \A i \in 2..7 : s[i] \in Digits \cup UpperHex

\* C3: for every template whose theme part parses to a theme document, whatever
\* the attribute values of its colour elements, the colorScheme analysis returns
\* has exactly the 12 slots and each slot's value matches ^#[0-9A-F]{6}$.
C3_EverySlotUpperHex ==
    (Analysed /\ template.kind = "zip" /\ template.zip.theme.state = "parsed") =>
        /\ DOMAIN analysis.result.themeData.colorScheme = SlotNames
        /\ \A s \in SlotNames :
              IsHashUpperHex6(analysis.result.themeData.colorScheme[s])

\* the extension is one of png, jpg, jpeg, gif, emf, wmf, in either case
AllowedExtension(ext) ==
    ext \in {"png", "jpg", "jpeg", "gif", "emf", "wmf",
             "PNG", "JPG", "JPEG", "GIF", "EMF", "WMF"}

\* the parts of the template under ppt/media/ with an allowed extension, in
\* archive order
AllowedMediaParts ==
    SelectSeq(template.zip.files,
              LAMBDA e : /\ Len(e.dir) >= 2
                         /\ SubSeq(e.dir, 1, 2) = <<"ppt", "media">>
                         /\ AllowedExtension(e.ext))

\* the records name, one for one and in order, files on disk of the parts' sizes
RecordsMatchParts(images, parts, disk) ==
    /\ Len(images) = Len(parts)
    /\ \A i \in DOMAIN images :
          /\ images[i].originalName = <<parts[i].word, parts[i].num, parts[i].ext>>
          /\ images[i].filePath = <<images[i].id, images[i].originalName>>
          /\ \E f \in disk :
                /\ <<f.id, f.name>> = images[i].filePath
                /\ f.size = parts[i].size

SameImageButId(a, b) ==
    /\ a.originalName = b.originalName
    /\ a.fileType = b.fileType
    /\ a.slideContext = b.slideContext
    /\ a.description = b.description

\* the two results agree on theme, colours, fonts, counts and layout names
SameTheme(a, b) ==
    /\ a.themeData.colorScheme = b.themeData.colorScheme
    /\ a.themeData.fontScheme = b.themeData.fontScheme
    /\ a.colors = b.colors
    /\ a.fonts = b.fonts
    /\ a.slideCount = b.slideCount
    /\ a.layoutCount = b.layoutCount
    /\ a.masterLayouts = b.masterLayouts

\* the two results agree on the images, ids and paths apart
SameImages(a, b) ==
    /\ a.imageCount = b.imageCount
    /\ Len(a.extractedImages) = Len(b.extractedImages)
    /\ \A i \in DOMAIN a.extractedImages :
          SameImageButId(a.extractedImages[i], b.extractedImages[i])

Built(layout) ==
    slideOut # NoCall /\ ~slideOut.threw /\ slideCall.slideData.layout = layout

\* the least k with 2k >= n
HalfUp(n) == CHOOSE k \in 0..n : 2 * k >= n /\ 2 * (k - 1) < n

\* C6: of a content that is n paragraphs separated by blank lines the two_column
\* builder puts the first ceil(n/2) paragraphs, in order, in the left block and
\* the other n - ceil(n/2), in order, in the right block, so that no paragraph
\* is lost or put in both.
C6_TwoColumnCeilingSplit ==
    Built("two_column") =>
        \A P \in ParaLists :
           join(P) = slideCall.slideData.content =>
              /\ slideOut.slide.elements[2].text = join(SubSeq(P, 1, HalfUp(Len(P))))
              /\ slideOut.slide.elements[3].text
                    = join(SubSeq(P, HalfUp(Len(P)) + 1, Len(P)))
              /\ Len(slideOut.slide.elements) = 3

\* C6 happens: a content of three paragraphs has been split two and one
C6_Witness ==
    /\ Built("two_column")
    /\ slideCall.slideData.content = join(<<<<"a">>, <<"b", NL, "c">>, <<"a">>>>)
    /\ slideOut.slide.elements[2].text = <<"a", NL, NL, "b", NL, "c">>
    /\ slideOut.slide.elements[3].text = <<"a">>

\* the element is the placeholder box
IsPlaceholder(e) ==
    /\ e.type = "text"
    /\ e.text = <<"Template Image", NL, "Placeholder">>
    /\ e.border # <<>>

\* C7: createSlide on an image_content record, with no analysis or with an
\* analysis that has no extracted image, does not raise and adds the placeholder
\* box (and no image).
C7_PlaceholderWithoutImages ==
    (/\ slideOut # NoCall
     /\ slideCall.slideData.layout = "image_content"
     /\ \/ slideCall.templateAnalysis = <<>>
        \/ Len(slideCall.templateAnalysis[1].extractedImages) = 0) =>
        /\ ~slideOut.threw
        /\ Cardinality({i \in DOMAIN slideOut.slide.elements :
                          IsPlaceholder(slideOut.slide.elements[i])}) = 1
        /\ \A i \in DOMAIN slideOut.slide.elements :
              slideOut.slide.elements[i].type # "image"

\* C7 happens: an image_content slide has been built from an analysis without
\* images
C7_Witness ==
    /\ Built("image_content")
    /\ slideCall.templateAnalysis # <<>>
    /\ Len(slideCall.templateAnalysis[1].extractedImages) = 0
    /\ Len(slideOut.slide.elements) = 3

KnownLayouts == {"title_slide", "content", "two_column", "image_content", "conclusion"}

\* C8: for a record whose layout is none of title_slide, content, two_column,
\* image_content, conclusion, createSlide adds the elements it adds for the same
\* record with layout "content".
C8_UnknownLayoutIsContent ==
    (slideOut # NoCall /\ slideCall.slideData.layout \notin KnownLayouts) =>
        /\ slideOut.threw
              = createSlide([slideCall.slideData EXCEPT !.layout = "content"],
                            slideCall.options, slideCall.templateAnalysis,
                            slideCall.disk, slideCall.addImageOk).threw
        /\ slideOut.slide.elements
              = createSlide([slideCall.slideData EXCEPT !.layout = "content"],
                            slideCall.options, slideCall.templateAnalysis,
                            slideCall.disk, slideCall.addImageOk).slide.elements

\* C8 happens: a record of layout "weird" has been built as a title and a body
C8_Witness ==
    /\ Built("weird")
    /\ Len(slideOut.slide.elements) = 2
    /\ slideOut.slide.elements[2].text = slideCall.slideData.content
    /\ slideOut.slide.elements[2].y = 15

(***************************************************************************)
(* Properties of generation (Spec)                                         *)
(***************************************************************************)
\* C9: a generatePresentation call with no template path, or with a path at which
\* no file exists, analyses no template (no analysis result, no extracted file, no
\* id drawn for one) and styles every slide with titleColor 2563EB, textColor
\* 1F2937, accentColor 64748B, titleFont Calibri, bodyFont Calibri.
C9_DefaultStyleWithoutTemplate ==
    [][(/\ generation' # generation
        /\ generation'.op = "generatePresentation"
        /\ generation'.templatePath # TemplatePath)
       => /\ ~generation'.analysed
          /\ generation'.templateAnalysis = <<>>
          /\ analysis' = analysis
          /\ imagesDir' = imagesDir
          /\ uuid' \in {uuid, uuid + 1}
          /\ \A i \in DOMAIN generation'.pptx.slides :
                generation'.pptx.slides[i].styleContext =
                   [titleColor |-> <<"2", "5", "6", "3", "E", "B">>,
                    textColor |-> <<"1", "F", "2", "9", "3", "7">>,
                    accentColor |-> <<"6", "4", "7", "4", "8", "B">>,
                    titleFont |-> "Calibri", bodyFont |-> "Calibri"]]_vars

\* C9 happens: a deck of three slides has been generated for a path that names no
\* file, after an analysis of the template
C9_Witness ==
    /\ generation.op = "generatePresentation"
    /\ generation.templatePath = MissingPath
    /\ Len(generation.pptx.slides) = 3
    /\ generation.outputPath # <<>>
    /\ Analysed

\* C10: a generatePresentation call whose template file exists and is no valid
\* archive does not raise on account of the template: analyzeTemplate returns the
\* baseline analysis, the slides are styled from it, and when writeFile resolves
\* the path of the written file is returned.
C10_CorruptTemplateAbsorbed ==
    (/\ generation.op = "generatePresentation"
     /\ generation.templatePath = TemplatePath
     /\ template.kind = "corrupt") =>
        /\ generation.cause # "template"
        /\ generation.analysed
        /\ generation.templateAnalysis = <<BaselineAnalysis>>
        /\ \A i \in DOMAIN generation.pptx.slides :
              /\ generation.pptx.slides[i].styleContext.titleColor
                    = <<"2", "5", "6", "3", "E", "B">>
              /\ generation.pptx.slides[i].styleContext.titleFont = "Calibri"
        /\ generation.raised <=> generation.writeFile # "resolved"
        /\ generation.writeFile = "resolved" =>
              /\ generation.outputPath # <<>>
              /\ generation.outputPath[1] \in uploadsDir

\* C10 happens: a deck has been generated and written against a corrupt template
C10_Witness ==
    /\ generation.op = "generatePresentation"
    /\ generation.templatePath = TemplatePath
    /\ template.kind = "corrupt"
    /\ generation.writeFile = "resolved"
    /\ Len(generation.pptx.slides) = 1
    /\ generation.outputPath # <<>>

\* C11: a generatePresentation call rejects only when writing the output document
\* fails: a failure of template analysis, of a slide builder on any content record
\* or of image reuse is absorbed and not reported.
C11_OnlyWriteFailureSurfaces ==
    (generation.op = "generatePresentation" /\ generation.raised) =>
        generation.writeFile = "rejected"

\* C12: whatever the layout, createSlide attaches the record's speaker notes to the
\* slide if and only if speakerNotes is non-empty and the options' generateNotes is
\* not "none"; with no options, or generateNotes auto, detailed or brief, a record
\* with notes gets them.
C12_NotesUnlessNone ==
    (slideOut # NoCall /\ ~slideOut.threw) =>
        /\ slideOut.slide.notes # "" <=>
              /\ slideCall.slideData.speakerNotes # ""
              /\ \/ slideCall.options = <<>>
                 \/ slideCall.options[1].generateNotes \in {"auto", "detailed", "brief"}
        /\ slideOut.slide.notes \in {"", slideCall.slideData.speakerNotes}

\* C12 happens: a conclusion slide has its notes with generateNotes "brief"
C12_Witness ==
    /\ Built("conclusion")
    /\ slideCall.options # <<>>
    /\ slideCall.options[1].generateNotes = "brief"
    /\ slideOut.slide.notes = "Say hello"

(***************************************************************************)
(* Properties of a call taken step by step (SpecOneCall)                   *)
(***************************************************************************)
\* an extraction whose own catch ran has settled with that extraction's default
StepDefaults(call) ==
    /\ call.theme.caught =>
          call.theme.value = <<[colorScheme |-> SlotDefault,
                                fontScheme |-> [majorFont |-> "Calibri",
                                                minorFont |-> "Calibri"]]>>
    /\ call.images.caught => call.images.value = <<<<>>>>
    /\ call.structure.caught =>
          call.structure.value[1].masterLayouts =
             <<"Title Slide", "Content", "Two Column", "Image & Content",
               "Section Header">>

\* C13: every analyzeTemplate call completes and returns a TemplateAnalysis, and
\* once the archive is open the join of the three extractions is reached: an
\* extraction that raises settles with its default, in whatever order the three
\* settle.  The analysis returned is the one the extractions' values aggregate to.
C13_AnalysisCompletes ==
    /\ (calls[1].pc # "idle") ~> (calls[1].pc = "done")
    /\ (calls[1].pc = "extract") ~> (calls[1].pc = "done" /\ calls[1].joined)
    /\ [](calls[1].pc = "extract" => StepDefaults(calls[1]))
    /\ [](calls[1].pc = "done" =>
            /\ ~calls[1].raised
            /\ Len(calls[1].result) = 1
            /\ calls[1].result[1] =
                  analyzeTemplate(calls[1].filePath, template, calls[1].first,
                                  calls[1].writeFail).result)

\* C13 happens: a call has returned after the theme extraction and the image
\* extraction both raised and were caught
C13_Witness ==
    /\ calls[1].pc = "done"
    /\ calls[1].joined
    /\ calls[1].theme.caught
    /\ calls[1].images.caught
    /\ calls[1].result[1].slideCount = 0

(***************************************************************************)
(* Properties of concurrent calls (SpecConcurrent)                         *)
(***************************************************************************)

\* the callers with a call in flight or finished
InCall == {c \in Callers : calls[c].pc # "idle"}

\* the paths caller c has written so far: its extracted images and, once
\* pptx.writeFile has resolved, its document
PathsOf(c) ==
    {<<"extracted_images", f.id, f.name>> : f \in calls[c].written}
    \cup (IF calls[c].pc = "done" /\ Len(calls[c].outputPath) = 1
          THEN {OutputPath(calls[c].outputPath[1].name, calls[c].outputPath[1].id)}
          ELSE {})

\* C14: under any interleaving of analyzeTemplate and generatePresentation calls,
\* on the same template and with the same title, no path is written twice: no two
\* callers have written the same path, every file a caller wrote is on disk, and
\* two documents awaiting their write never have the same path
C14_NoPathWrittenTwice ==
    /\ history.overwritten = {}
    /\ \A c \in InCall, d \in InCall : c # d => PathsOf(c) \cap PathsOf(d) = {}
    /\ \A c \in InCall : calls[c].written \subseteq imagesDir
    /\ \A c \in InCall, d \in InCall :
          c # d /\ calls[c].pc = "write" /\ calls[d].pc = "write"
             => calls[c].outputPath # calls[d].outputPath

\* a generation and an analysis of the same template overlap: the second caller
\* has written its copy of the image before the first drew the id of its document
C14_Witness ==
    /\ InCall = Callers
    /\ calls[1].op = "generatePresentation"
    /\ calls[1].pc = "done"
    /\ calls[1].written # {}
    /\ Len(calls[1].outputPath) = 1
    /\ calls[2].written # {}
    /\ \E f \in calls[2].written : f.id < calls[1].outputPath[1].id
    /\ \E f \in calls[1].written : \E g \in calls[2].written : f.name = g.name /\ f.id # g.id

(***************************************************************************)
(* Properties of cleanup (SpecCleanup)                                     *)
(***************************************************************************)

\* the files of dir whose name starts with "<id>_" for an id of imageIds
NamedBy(dir, imageIds) ==
    {f \in dir : \E id \in imageIds :
        Len(StoredName(f)) >= 2 /\ StoredName(f)[1] = id /\ StoredName(f)[2] = "_"}

C16_ColorsAndFontsNonEmpty ==
    analysis.op = "analyzeTemplate" =>
        /\ Len(analysis.result.colors) >= 1
        /\ Len(analysis.result.fonts) >= 1

\* s without its leading '#'
WithoutLeadingHash(s) == IF s # <<>> /\ s[1] = "#" THEN Tail(s) ELSE s

\* the StyleContext the claim derives from a theme
StyleOf(themeData) ==
    [titleColor |-> WithoutLeadingHash(themeData.colorScheme.accent1),
     textColor |-> WithoutLeadingHash(themeData.colorScheme.text1),
     accentColor |-> WithoutLeadingHash(themeData.colorScheme.accent2),
     titleFont |-> themeData.fontScheme.majorFont,
     bodyFont |-> themeData.fontScheme.minorFont]

\* C17: when a generation has a template analysis, the style context of every
\* slide it builds is titleColor = accent1, textColor = text1, accentColor =
\* accent2, each without its leading '#', titleFont = majorFont and bodyFont =
\* minorFont of that analysis' themeData; all slides of the call have the same
\* context, and the title of each slide is set in the context's title font.
C17_StyleFromAnalysis ==
    (generation.op = "generatePresentation" /\ generation.templateAnalysis # <<>>) =>
        /\ \A i \in DOMAIN generation.pptx.slides :
              /\ generation.pptx.slides[i].styleContext =
                    StyleOf(generation.templateAnalysis[1].themeData)
              /\ generation.pptx.slides[i].elements # <<>> =>
                    generation.pptx.slides[i].elements[1].fontFace =
                       generation.templateAnalysis[1].themeData.fontScheme.majorFont
        /\ \A i \in DOMAIN generation.pptx.slides, j \in DOMAIN generation.pptx.slides :
              generation.pptx.slides[i].styleContext =
                 generation.pptx.slides[j].styleContext

\* three slides have been built from the analysis of a template whose theme has
\* different title and body fonts
C17_Witness ==
    /\ generation.op = "generatePresentation"
    /\ generation.templateAnalysis # <<>>
    /\ template.kind = "zip"
    /\ Len(generation.pptx.slides) = 3
    /\ generation.pptx.slides[1].styleContext.titleFont = "Arial"
    /\ generation.pptx.slides[3].styleContext.bodyFont = "Georgia"

\* resolving the colour of a slot element raises inside extractColorValue
SlotRaises(colorElement) ==
    /\ colorElement # <<>>
    /\ ~IsEmptyTag(colorElement[1])
    /\ FirstOf(ClrChild(colorElement[1], "srgbClr", "val"),
       FirstOf(ClrChild(colorElement[1], "sysClr", "lastClr"),
       FirstOf(DirectVal(colorElement[1]), NestedVal(colorElement[1])))) = Throw

\* some step of the extraction of a theme part raises: the read of the part, the
\* XML parse, the navigation to the schemes, or the resolution of a slot
ThemeStepRaises(themePart) ==
    \/ themePart.state \in {"unreadable", "malformed"}
    \/ /\ themePart.state = "parsed"
       /\ \/ ThemeRoot(themePart.doc) = <<>>
          \/ LET colorScheme == SchemeOf(ThemeRoot(themePart.doc)[1], "clrScheme")
             IN /\ colorScheme # <<>>
                /\ ~IsEmptyTag(colorScheme[1])
                /\ \E s \in SlotNames : SlotRaises(GetNs(colorScheme[1], SlotTag[s]))

\* C18: when any step of the theme extraction raises, the themeData analyzeTemplate
\* returns is the complete default theme, all 12 colour slots and both fonts, never
\* a mix of extracted and defaulted values.
C18_NoPartialTheme ==
    (Analysed /\ template.kind = "zip" /\ ThemeStepRaises(template.zip.theme)) =>
        analysis.result.themeData = getDefaultThemeData

\* the slot elements of the theme the last analysis read, when it has a colour
\* scheme: slot name to element list
SlotElements ==
    [s \in SlotNames |->
        GetNs(SchemeOf(ThemeRoot(template.zip.theme.doc)[1], "clrScheme")[1], SlotTag[s])]

HasColorScheme ==
    /\ Analysed
    /\ template.kind = "zip"
    /\ template.zip.theme.state = "parsed"
    /\ ThemeRoot(template.zip.theme.doc) # <<>>
    /\ SchemeOf(ThemeRoot(template.zip.theme.doc)[1], "clrScheme") # <<>>
    /\ ~IsEmptyTag(SchemeOf(ThemeRoot(template.zip.theme.doc)[1], "clrScheme")[1])

\* the value of attribute attr of the first child element tag of e, <<>> when the
\* child or the attribute is missing or empty
ChildAttr(e, tag, attr) ==
    IF GetNs(e, tag) = <<>> THEN <<>> ELSE Attr(GetNs(e, tag)[1], attr)

\* the 6-hex-digit values of the attributes named "color" below e, at any depth
RECURSIVE ColorAttrsBelow(_)
ColorAttrsBelow(e) ==
    UNION {UNION {(IF IsHex6(Attr(e.kids[i].items[j], "color"))
                   THEN {Attr(e.kids[i].items[j], "color")} ELSE {})
                  \cup ColorAttrsBelow(e.kids[i].items[j]) :
                     j \in DOMAIN e.kids[i].items} :
           i \in DOMAIN e.kids}

\* the values strategies (a), (b), (c) and the last strategy allow for a slot
\* element, the last one given as the set of values it may pick
Resolved(slot, colorElement, last) ==
    IF colorElement = <<>> THEN {SlotDefault[slot]}
    ELSE IF ChildAttr(colorElement[1], "srgbClr", "val") # <<>>
    THEN {Hash(toUpperCase(ChildAttr(colorElement[1], "srgbClr", "val")))}
    ELSE IF ChildAttr(colorElement[1], "sysClr", "lastClr") # <<>>
    THEN {Hash(toUpperCase(ChildAttr(colorElement[1], "sysClr", "lastClr")))}
    ELSE IF Attr(colorElement[1], "val") # <<>>
    THEN {Hash(toUpperCase(Attr(colorElement[1], "val")))}
    ELSE IF last # {} THEN {Hash(toUpperCase(v)) : v \in last}
    ELSE {SlotDefault[slot]}

RaisesAt(e, tag, attr) ==
    /\ GetNs(e, tag) # <<>>
    /\ DOMAIN GetNs(e, tag)[1].attrs = {}
    /\ Get(GetNs(e, tag)[1], attr) # <<>>

\* the val of the first child of e, in document order, whose name contains "Clr"
\* and whose val attribute is 6 hex digits
FirstClrChildVal(e) ==
    LET hit == {i \in DOMAIN e.kids :
                  /\ HasClr(e.kids[i].key)
                  /\ IsHex6(Attr(e.kids[i].items[1], "val"))}
    IN IF hit = {} THEN {}
       ELSE {Attr(e.kids[CHOOSE i \in hit : \A j \in hit : i <= j].items[1], "val")}

C20_MasterLayoutsNeverEmpty ==
    analysis.op = "analyzeTemplate" =>
        /\ analysis.result.masterLayouts # <<>>
        /\ (Analysed /\ template.kind = "zip" /\ template.zip.master \in {"unreadable", "absent"})
              => analysis.result.masterLayouts = DefaultLayoutNames

(***************************************************************************)
(* Properties of image extraction, taken with the fault of the call        *)
(***************************************************************************)
\* C21: a failure while reading or writing one image does not abort the batch:
\* every allowed media part that can be read and whose write the disk accepts has
\* its record in the list the call returns, and the call does not raise.
C21_OneFailureDoesNotAbort ==
    (calls[1].pc = "done" /\ OpensAsZip(calls[1].filePath, template)) =>
        /\ ~calls[1].raised
        /\ \A i \in DOMAIN mediaFiles(template.zip) :
              (mediaFiles(template.zip)[i].ok /\ i # calls[1].writeFail) =>
                 \E k \in DOMAIN calls[1].result[1].extractedImages :
                    calls[1].result[1].extractedImages[k].originalName =
                       BaseName(mediaFiles(template.zip)[i])

(***************************************************************************)
(* Properties of the document generation writes (Spec)                     *)
(***************************************************************************)
\* the master a document without template would carry: the default theme's values
DefaultMasterValues ==
    [background |-> Tail(cFFFFFF), titleFont |-> "Calibri", titleColor |-> Tail(c5B9BD5),
     bodyFont |-> "Calibri", bodyColor |-> Tail(c000000)]

\* C22: every generation call defines the 16:9 layout (10 x 5.625) and exactly one
\* slide master; the master carries the theme values of the analysis when a
\* template was analysed and the default theme values when none was.
C22_OneMasterEveryCall ==
    generation.op = "generatePresentation" =>
        /\ generation.pptx.layout = [name |-> "LAYOUT_16x9", width |-> 10000, height |-> 5625]
        /\ Len(generation.pptx.masters) = 1
        /\ generation.templateAnalysis # <<>> =>
              /\ generation.pptx.masters[1].titleFont =
                    generation.templateAnalysis[1].themeData.fontScheme.majorFont
              /\ generation.pptx.masters[1].bodyFont =
                    generation.templateAnalysis[1].themeData.fontScheme.minorFont
              /\ Hash(generation.pptx.masters[1].titleColor) =
                    generation.templateAnalysis[1].themeData.colorScheme.accent1
              /\ Hash(generation.pptx.masters[1].bodyColor) =
                    generation.templateAnalysis[1].themeData.colorScheme.text1
              /\ Hash(generation.pptx.masters[1].background) =
                    generation.templateAnalysis[1].themeData.colorScheme.background1
        /\ generation.templateAnalysis = <<>> =>
              \A f \in DOMAIN DefaultMasterValues :
                 generation.pptx.masters[1][f] = DefaultMasterValues[f]

(***************************************************************************)
(* Properties of the image_content builder (SpecSlides)                    *)
(***************************************************************************)
\* the analysis createSlide was handed has an extracted image, and the file of the
\* first one is in the images directory
FirstImageOnDisk ==
    /\ slideCall.templateAnalysis # <<>>
    /\ Len(slideCall.templateAnalysis[1].extractedImages) >= 1
    /\ \E f \in slideCall.disk :
          <<f.id, f.name>> = slideCall.templateAnalysis[1].extractedImages[1].filePath

\* the image_content slide built has, when shown holds, the first extracted image
\* and no placeholder, and otherwise the placeholder and no image
ImageIff(shown) ==
    /\ ~slideOut.threw
    /\ Cardinality({i \in DOMAIN slideOut.slide.elements :
                      slideOut.slide.elements[i].type = "image"})
          = IF shown THEN 1 ELSE 0
    /\ Cardinality({i \in DOMAIN slideOut.slide.elements :
                      IsPlaceholder(slideOut.slide.elements[i])})
          = IF shown THEN 0 ELSE 1
    /\ \A i \in DOMAIN slideOut.slide.elements :
          slideOut.slide.elements[i].type = "image" =>
             slideOut.slide.elements[i].path =
                slideCall.templateAnalysis[1].extractedImages[1].filePath

\* C23: an image_content slide shows the first extracted image whenever the
\* analysis has one whose file is on disk, and the placeholder box otherwise;
\* exactly one of the two is added, and the image is the first in extraction order
\* whatever the slide record.
C23_ReuseFirstImage ==
    (slideOut # NoCall /\ slideCall.slideData.layout = "image_content") =>
        ImageIff(FirstImageOnDisk)

\* C23 as the code has it: the image is shown when, besides, slide.addImage does
\* not raise; when it raises the placeholder is added in its place.
C23_ReuseFirstImageUnlessAddFails ==
    (slideOut # NoCall /\ slideCall.slideData.layout = "image_content") =>
        ImageIff(FirstImageOnDisk /\ slideCall.addImageOk)

\* an image_content slide built from an analysis with two images shows the first
C23_Witness ==
    /\ Built("image_content")
    /\ FirstImageOnDisk
    /\ Len(slideCall.templateAnalysis[1].extractedImages) = 2
    /\ slideOut.slide.elements[3].type = "image"
    /\ slideOut.slide.elements[3].path # slideCall.templateAnalysis[1].extractedImages[2].filePath

\* the option bags that differ from options in reuseImages, preserveLayouts or
\* matchFonts only
FlagVariants(options) ==
    {<<[options[1] EXCEPT !.reuseImages = r, !.preserveLayouts = p, !.matchFonts = m]>> :
        r \in BOOLEAN, p \in BOOLEAN, m \in BOOLEAN}

\* C24: two option bags that differ only in reuseImages, preserveLayouts or
\* matchFonts give the same slide for the same record, analysis and directory:
\* the same elements, styling, background and notes; reuseImages = false does not
\* stop the image from being reused nor matchFonts = false the fonts of the
\* template from being applied.
C24_FlagsAreInert ==
    (slideOut # NoCall /\ slideCall.options # <<>>) =>
        \A o \in FlagVariants(slideCall.options) :
           createSlide(slideCall.slideData, o, slideCall.templateAnalysis,
                       slideCall.disk, slideCall.addImageOk) = slideOut

\* an image_content slide built with the three flags off shows the image of the
\* template in the fonts of the template
C24_Witness ==
    /\ Built("image_content")
    /\ slideCall.options # <<>>
    /\ ~slideCall.options[1].reuseImages
    /\ ~slideCall.options[1].matchFonts
    /\ slideOut.slide.elements[3].type = "image"
    /\ slideOut.slide.elements[1].fontFace = "Arial"

(***************************************************************************)
(* Properties of font resolution (SpecAnalysis)                            *)
(***************************************************************************)
\* the font-scheme element of the theme the last analysis read, when it has one
HasFontScheme ==
    /\ Analysed
    /\ template.kind = "zip"
    /\ template.zip.theme.state = "parsed"
    /\ ThemeRoot(template.zip.theme.doc) # <<>>
    /\ SchemeOf(ThemeRoot(template.zip.theme.doc)[1], "fontScheme") # <<>>
    /\ ~IsEmptyTag(SchemeOf(ThemeRoot(template.zip.theme.doc)[1], "fontScheme")[1])

\* the typeface attribute of the latin sub-element of the element named name of
\* the font scheme, "" when the element, the sub-element or the attribute is absent
LatinTypeface(name) ==
    LET fontElement == GetNs(SchemeOf(ThemeRoot(template.zip.theme.doc)[1],
                                      "fontScheme")[1], name)
    IN IF fontElement = <<>> THEN ""
       ELSE IF GetNs(fontElement[1], "latin") = <<>> THEN ""
       ELSE IF "typeface" \in DOMAIN GetNs(fontElement[1], "latin")[1].attrs
       THEN GetNs(fontElement[1], "latin")[1].attrs.typeface
       ELSE ""

\* C25: majorFont and minorFont are each the typeface attribute of the latin
\* sub-element of their font-scheme element when that attribute is present and
\* non-empty, and "Calibri" otherwise, each resolved without regard to the other;
\* neither is empty in any ThemeData returned.
C25_FontsFromLatinTypeface ==
    analysis.op = "analyzeTemplate" =>
        /\ analysis.result.themeData.fontScheme.majorFont # ""
        /\ analysis.result.themeData.fontScheme.minorFont # ""
        /\ HasFontScheme =>
              /\ analysis.result.themeData.fontScheme.majorFont =
                    IF LatinTypeface("majorFont") # "" THEN LatinTypeface("majorFont")
                    ELSE "Calibri"
              /\ analysis.result.themeData.fontScheme.minorFont =
                    IF LatinTypeface("minorFont") # "" THEN LatinTypeface("minorFont")
                    ELSE "Calibri"

(***************************************************************************)
(* Properties of the structure analysis (SpecAnalysis)                     *)
(***************************************************************************)
\* the number of parts of the archive named ppt/<dir>/<stem><digits>.xml
PartsNamed(dir, stem) ==
    Cardinality({i \in DOMAIN template.zip.files :
                   /\ template.zip.files[i].dir = <<"ppt", dir>>
                   /\ template.zip.files[i].word = stem
                   /\ template.zip.files[i].num # ""
                   /\ template.zip.files[i].ext = "xml"})

\* C26: the analysis of an archive does not raise and reports slideCount equal to
\* the number of parts ppt/slides/slide<digits>.xml and layoutCount equal to the
\* number of parts ppt/slideLayouts/slideLayout<digits>.xml, 0 when there are
\* none; relationship parts and notes slides are not counted.
C26_CountsMatchParts ==
    (Analysed /\ template.kind = "zip") =>
        /\ ~analysis.raised
        /\ analysis.result.slideCount = PartsNamed("slides", "slide")
        /\ analysis.result.layoutCount = PartsNamed("slideLayouts", "slideLayout")

\* an archive with two slides, a slide relationship part, a notes slide and a part
\* slide.xml has been analysed: two slides and one layout are counted
C26_Witness ==
    /\ Analysed
    /\ template.kind = "zip"
    /\ \E i \in DOMAIN template.zip.files :
          template.zip.files[i].dir = <<"ppt", "slides", "_rels">>
    /\ \E i \in DOMAIN template.zip.files :
          template.zip.files[i].dir = <<"ppt", "notesSlides">>
    /\ analysis.result.slideCount = 2
    /\ analysis.result.layoutCount = 1

(***************************************************************************)
(* Properties of the records an analysis returns (SpecAnalysis)            *)
(***************************************************************************)
\* C27: in every analysis returned, imageCount is the length of extractedImages,
\* every entry names a file the same call wrote (its id, its name, its path), and
\* no two entries have the same id.
C27_RecordsNameOwnFiles ==
    analysis.op = "analyzeTemplate" =>
        /\ ~analysis.raised
        /\ analysis.result.imageCount = Len(analysis.result.extractedImages)
        /\ \A k \in DOMAIN analysis.result.extractedImages :
              \E f \in analysis.written :
                 /\ f.id = analysis.result.extractedImages[k].id
                 /\ f.name = analysis.result.extractedImages[k].originalName
                 /\ <<f.id, f.name>> = analysis.result.extractedImages[k].filePath
        /\ \A k \in DOMAIN analysis.result.extractedImages,
              l \in DOMAIN analysis.result.extractedImages :
              k # l => analysis.result.extractedImages[k].id #
                          analysis.result.extractedImages[l].id

\* an analysis has returned two records for the two files it wrote
C27_Witness ==
    /\ Analysed
    /\ analysis.result.imageCount = 2
    /\ Cardinality(analysis.written) = 2
    /\ analysis.result.extractedImages[1].id # analysis.result.extractedImages[2].id

\* C28: when an analyzeTemplate call has returned, every file it wrote to the
\* images directory is referenced by a record of the list returned, so that a
\* cleanup with the ids returned removes all the call wrote, also when the
\* extraction failed after some images were written.
C28_EveryWrittenFileReturned ==
    analysis.op = "analyzeTemplate" =>
        /\ \A f \in analysis.written :
              \E k \in DOMAIN analysis.result.extractedImages :
                 analysis.result.extractedImages[k].id = f.id
        /\ Unlinked(analysis.written,
                    {analysis.result.extractedImages[k].id :
                       k \in DOMAIN analysis.result.extractedImages}) = {}

(***************************************************************************)
(* Properties of the slides and files a generation leaves (Spec)           *)
(***************************************************************************)
\* the elements the builder named by a record's layout puts on its slide
BuiltFor(slideData, templateAnalysis, disk, addImageOk) ==
    LET sc == getStyleContext(templateAnalysis)
    IN CASE slideData.layout = "title_slide" -> createTitleSlide(slideData, sc)
         [] slideData.layout = "two_column" -> createTwoColumnSlide(slideData, sc)
         [] slideData.layout = "image_content" ->
               createImageContentSlide(slideData, sc, templateAnalysis, disk, addImageOk)
         [] slideData.layout = "conclusion" -> createConclusionSlide(slideData, sc)
         [] OTHER -> createContentSlide(slideData, sc)

SlidesFollowRecords(g, disk) ==
    /\ Len(g.pptx.slides) = Len(g.presentationData.slides)
    /\ \E addImageOk \in BOOLEAN :
          \A i \in DOMAIN g.presentationData.slides :
             g.pptx.slides[i].elements =
                BuiltFor(g.presentationData.slides[i], g.templateAnalysis, disk,
                         addImageOk)

\* C29: a generatePresentation call in which no builder and no analysis raises
\* adds one slide per record of presentationData.slides, in the order of the
\* records, each with the elements of the builder its record's layout selects
\* (the content builder for any other layout), whatever totalSlides and the
\* slideNumber fields say.
C29_OneSlidePerRecord ==
    [][(/\ generation' # generation
        /\ generation'.op = "generatePresentation"
        /\ generation'.cause \in {"", "write"})
       => SlidesFollowRecords(generation', imagesDir')]_vars

C29_Witness ==
    /\ generation.op = "generatePresentation"
    /\ generation.cause = ""
    /\ Len(generation.pptx.slides) = 3
    /\ generation.presentationData.totalSlides = 7
    /\ \A i \in 1..3 : generation.presentationData.slides[i].slideNumber = 1

\* a step in which a call analysed the template file, which opens as an archive
AnalysedTemplateStep ==
    /\ analysis' # analysis
    /\ analysis'.filePath = TemplatePath
    /\ OpensAsZip(TemplatePath, template)

\* the step wrote one new file per allowed media part of the template, each
\* under an id no earlier file has, and removed none
WroteFreshCopies ==
    /\ imagesDir \subseteq imagesDir'
    /\ imagesDir' \ imagesDir = analysis'.written
    /\ Cardinality(analysis'.written) = Draws(TemplatePath)
    /\ \A f \in analysis'.written : \A g \in imagesDir : f.id # g.id
    /\ \A i \in 1..Draws(TemplatePath) :
          \E f \in analysis'.written :
             f.name = BaseName(mediaFiles(template.zip)[i])

\* a generatePresentation call given the template runs the analysis
GenerationAnalyses ==
    (/\ generation' # generation
     /\ generation'.templatePath = TemplatePath
     /\ existsSync(TemplatePath, template))
    => generation'.analysed /\ analysis'.filePath = TemplatePath

====
